---- MODULE Spec2Model ----
(***************************************************************************)
(* Model of the audio streaming server: the ThreadBuffer byte queue and    *)
(* its worker (src/src/thread_buffer.rs), the record() orchestrator         *)
(* (src/src/bin/port-audio-test.rs) and the UDP fan-out server              *)
(* (src/src/net_server/mod.rs).                                             *)
(*                                                                         *)
(* Byte strings of the ThreadBuffer are kept run-length encoded: a string   *)
(* is a sequence of runs <<v, n>> (n >= 1 bytes of value v), adjacent runs  *)
(* holding different values, so that equal strings have equal encodings     *)
(* and BUFFER_SIZE keeps its real value of 4096.                            *)
(***************************************************************************)
EXTENDS Integers, Sequences, FiniteSets, TLC

\* ------------------------------------------------------------------ bounds
\* number of write_data calls of the client
MaxWrites == 3
\* number of stop_and_join calls of the client (the second one is Drop's)
MaxStops == 2

\* byte values and slice lengths the producer passes to write_data
ByteVals == {0, 1}
WriteLens == {1, 4096, 4097}

\* blocks enqueued by send_to_all
MaxBlocks == 2
\* iterations of record's capture loop
MaxReads == 1
\* SIGINT/SIGTERM deliveries
MaxSignals == 2
\* length of the buffer passed to read_interleaved / write_interleaved
MaxBufLen == 9
\* device calls of one SndPcm call that transfer nothing (EAGAIN, zero frames,
\* a recovered xrun)
MaxIo == 2
\* the amount of queued bytes taken as saturation of a sink queue; the code
\* names none, and any level is passed by enough writes
SaturationLen == 8192

\* peer addresses
Addrs == {"a", "b", "c"}

\* ------------------------------------------------------- program constants
BUFFER_SIZE == 4096
\* poll_loop's receive buffer: vec![0; 1024]
RECV_BUF_LEN == 1024
\* alsa_ffi.rs
EAGAIN == 11
EPIPE == 32

\* av_get_channel_layout_nb_channels(LAYOUT), LAYOUT = AV_CH_LAYOUT_STEREO
LayoutChannels == 2

Sinks == {"player", "server"}

\* ------------------------------------------------------------- byte strings
Min(a, b) == IF a <= b THEN a ELSE b

\* s followed by n bytes of value v
App(s, r) ==
  IF r[2] = 0 THEN s
  ELSE IF s # <<>> /\ s[Len(s)][1] = r[1]
       THEN [s EXCEPT ![Len(s)] = <<r[1], s[Len(s)][2] + r[2]>>]
       ELSE Append(s, r)

RECURSIVE Cat(_, _)
\* concatenation: Vec::extend / VecDeque::extend
Cat(a, b) == IF b = <<>> THEN a ELSE Cat(App(a, Head(b)), Tail(b))

RECURSIVE BLen(_)
\* number of bytes: len()
BLen(s) == IF s = <<>> THEN 0 ELSE Head(s)[2] + BLen(Tail(s))

RECURSIVE Take(_, _)
\* the first n bytes: what drain(..n) yields
Take(s, n) ==
  IF n = 0 \/ s = <<>> THEN <<>>
  ELSE IF Head(s)[2] <= n
       THEN <<Head(s)>> \o Take(Tail(s), n - Head(s)[2])
       ELSE << <<Head(s)[1], n>> >>

RECURSIVE Drop(_, _)
\* what drain(..n) leaves in the deque
Drop(s, n) ==
  IF n = 0 \/ s = <<>> THEN s
  ELSE IF Head(s)[2] <= n
       THEN Drop(Tail(s), n - Head(s)[2])
       ELSE << <<Head(s)[1], Head(s)[2] - n>> >> \o Tail(s)

IsPrefix(a, b) == BLen(a) <= BLen(b) /\ Take(b, BLen(a)) = a

\* the slices a caller may pass to write_data (the empty slice included)
WriteData == {<<>>} \cup { << <<v, n>> >> : v \in ByteVals, n \in WriteLens }

\* ------------------------------------------------------------------- state
VARIABLES
  que,            \* ThreadQueue.que: [some, buf], some = FALSE is None (closed)
  mtx,            \* holder of the ThreadQueue mutex: "free", "main", "worker"
  woken,          \* the worker, waiting on cvar, has been notified
  thread,         \* ThreadBuffer.thread is Some
  wpc,            \* the worker's position in thread_loop
  buffer,         \* ThreadData.buffer
  delivered,      \* history: concatenation of the slices passed to new_slice
  written,        \* history: concatenation of the slices passed to write_data
  preClose,       \* history: the part of written passed before the queue was closed
  closedEver,     \* history: stop_and_join has set the queue to None
  closedReports,  \* history: times wait_and_fill_buffer returned false
  werr,           \* history: the worker left on an error of new_slice
  cyc,            \* history: drains begun after the capture loop was left on a signal
  afterClose,     \* history: new_slice calls made after the queue was closed
  mpc,            \* position of the thread owning the ThreadBuffers
  call,           \* the call in progress in that thread: [s, data, ret]
  nwrites,        \* write_data calls made so far
  nstops,         \* stop_and_join calls made so far
  recdata,        \* record's captured (and resampled) data of this iteration
  down,           \* history: record's way out of the loop: "no", "break", "stop_ok", "stop_err"
  clients,        \* PollLoop.clients
  to_send,        \* SendQueue.to_send
  free,           \* SendQueue.free
  loop,           \* the poll_loop thread: "running", "exited", "panicked"
  flag,           \* SignalEvent.signal_flag
  exitReady,      \* readiness of EXIT_TOKEN, not yet handled
  sendReady,      \* readiness of SEND_DATA_TOKEN, not yet handled
  enq,            \* history: the payloads send_to_all has enqueued
  npopped,        \* history: blocks popped by send_new_data
  ev,             \* history: the server's last step, its input and its send_to calls
  poster,         \* the thread owning the NetServer handle: "alive", "panicked", "dropped"
  nsig,           \* history: SIGINT/SIGTERM deliveries seen by the signal thread
  pcm,            \* the SndPcm call in progress: its arguments, locals and result
  dev,            \* the ALSA device behind the SndPcm: its state and its frames
  enc,            \* the ffmpeg Encoder of the broadcaster sink and its codec
  cap,            \* record's capture: the params, the resampler, the last read
  taw,            \* the ThreadAudioWriter, its queue and its thread
  pkt,            \* the NetworkPktGenerator and the buffer it last wrapped
  lk              \* the SendQueue mutex and the threads that take it

tbvars == <<que, mtx, woken, thread, wpc, buffer, delivered, written, preClose,
            closedEver, closedReports, werr, cyc, afterClose>>
mvars == <<mpc, call, nwrites, nstops, recdata, down>>
netvars == <<clients, to_send, free, loop, flag, exitReady, sendReady, enq,
             npopped, ev, poster, nsig>>
\* the state of the components that the ThreadBuffer, the fan-out server and
\* record do not touch
auxvars == <<cap, taw, pkt, lk>>
restvars == <<pcm, dev, enc, auxvars>>
vars == <<tbvars, mvars, netvars, restvars>>

None == [some |-> FALSE, buf |-> <<>>]
NoCall == [s |-> "server", data |-> <<>>, ret |-> "idle"]

\* no SndPcm call is modelled
NoPcm == [pc |-> "none"]
NoDev == [state |-> "none"]
NoPcmCall ==
  /\ pcm = NoPcm
  /\ dev = NoDev

\* no Encoder is modelled
NoEnc == [pc |-> "none"]
NoEncoder == enc = NoEnc

\* no capture loop is modelled
NoCap == [pc |-> "none"]
NoCapture == cap = NoCap

\* no ThreadAudioWriter is modelled
NoTaw == [pc |-> "none"]
NoWriter == taw = NoTaw

\* no NetworkPktGenerator is modelled
NoPkt == [pc |-> "none"]
NoPktGen == pkt = NoPkt

\* the SendQueue mutex is not modelled: send_to_all and send_new_data are
\* taken as one step each
NoLk == [pc |-> "none"]
NoLocks == lk = NoLk

\* ThreadBuffer::new for the sinks of `made`; the others do not exist
InitSinks(made) ==
  /\ que = [s \in Sinks |-> [some |-> TRUE, buf |-> <<>>]]
  /\ mtx = [s \in Sinks |-> "free"]
  /\ woken = [s \in Sinks |-> FALSE]
  /\ thread = [s \in Sinks |-> s \in made]
  /\ wpc = [s \in Sinks |-> IF s \in made THEN "fill" ELSE "absent"]
  /\ buffer = [s \in Sinks |-> <<>>]
  /\ delivered = [s \in Sinks |-> <<>>]
  /\ written = [s \in Sinks |-> <<>>]
  /\ preClose = [s \in Sinks |-> <<>>]
  /\ closedEver = [s \in Sinks |-> FALSE]
  /\ closedReports = [s \in Sinks |-> 0]
  /\ werr = [s \in Sinks |-> FALSE]
  /\ cyc = [s \in Sinks |-> 0]
  /\ afterClose = [s \in Sinks |-> 0]

\* record() has left its capture loop after the latch was set
AfterLoop ==
  /\ flag
  /\ mpc \in {"rec_stop", "stop_player", "stop_server", "drop_server",
              "drop_player", "returned", "sj_take", "sj_lock", "sj_close",
              "sj_notify", "sj_join"}

\* Condvar::notify_one: wakes the worker if it waits, is lost otherwise
NotifyOne(s) == woken' = [woken EXCEPT ![s] = (wpc[s] = "waiting")]

\* ------------------------------------------------------------ ThreadBuffer
\* write_data, line 34: lock the queue
WriteLock ==
  /\ mpc = "wd_lock"
  /\ mtx[call.s] = "free"
  /\ mtx' = [mtx EXCEPT ![call.s] = "main"]
  /\ mpc' = "wd_body"
  /\ UNCHANGED <<que, woken, thread, wpc, buffer, delivered, written, preClose,
                 closedEver, closedReports, werr, call, nwrites, nstops>>
  /\ UNCHANGED <<cyc, afterClose, recdata, down>>
  /\ UNCHANGED <<netvars, restvars>>

\* mutant: write_data appends also to a closed queue, opening it again
WriteQue_Reopen(q, data) == [some |-> TRUE, buf |-> Cat(q.buf, data)]

\* mutant: write_data stores the bytes whether the queue is Some or None
WriteQue_KeepBytes(q, data) == [q EXCEPT !.buf = Cat(q.buf, data)]

\* the queue after write_data's body
WriteQue(q, data) ==
  IF q.some THEN [q EXCEPT !.buf = Cat(q.buf, data)] ELSE q

\* write_data, lines 35-39: extend and notify if the queue is Some; unlock
WriteBody ==
  /\ mpc = "wd_body"
  /\ que' = [que EXCEPT ![call.s] = WriteQue(que[call.s], call.data)]
  /\ IF que[call.s].some THEN NotifyOne(call.s) ELSE woken' = woken
  /\ mtx' = [mtx EXCEPT ![call.s] = "free"]
  /\ mpc' = call.ret
  /\ UNCHANGED <<thread, wpc, buffer, delivered, written, preClose,
                 closedEver, closedReports, werr, call, nwrites, nstops>>
  /\ UNCHANGED <<cyc, afterClose, recdata, down>>
  /\ UNCHANGED <<netvars, restvars>>

\* mutant: stop_and_join goes on whether or not the handle was there
StopTake_Unwrap ==
  /\ mpc = "sj_take"
  /\ thread' = [thread EXCEPT ![call.s] = FALSE]
  /\ mpc' = "sj_lock"
  /\ UNCHANGED <<que, mtx, woken, wpc, buffer, delivered, written, preClose,
                 closedEver, closedReports, werr, call, nwrites, nstops>>
  /\ UNCHANGED <<cyc, afterClose, recdata, down>>
  /\ UNCHANGED <<netvars, restvars>>

\* stop_and_join, line 44: self.thread.take()
StopTake ==
  /\ mpc = "sj_take"
  /\ thread' = [thread EXCEPT ![call.s] = FALSE]
  /\ mpc' = IF thread[call.s] THEN "sj_lock" ELSE call.ret
  /\ UNCHANGED <<que, mtx, woken, wpc, buffer, delivered, written, preClose,
                 closedEver, closedReports, werr, call, nwrites, nstops>>
  /\ UNCHANGED <<cyc, afterClose, recdata, down>>
  /\ UNCHANGED <<netvars, restvars>>

\* stop_and_join, line 45: lock
StopLock ==
  /\ mpc = "sj_lock"
  /\ mtx[call.s] = "free"
  /\ mtx' = [mtx EXCEPT ![call.s] = "main"]
  /\ mpc' = "sj_close"
  /\ UNCHANGED <<que, woken, thread, wpc, buffer, delivered, written, preClose,
                 closedEver, closedReports, werr, call, nwrites, nstops>>
  /\ UNCHANGED <<cyc, afterClose, recdata, down>>
  /\ UNCHANGED <<netvars, restvars>>

\* mutant: stop_and_join keeps the guard of the queue until it has joined
StopClose_KeepGuard ==
  /\ mpc = "sj_close"
  /\ que' = [que EXCEPT ![call.s] = None]
  /\ closedEver' = [closedEver EXCEPT ![call.s] = TRUE]
  /\ mpc' = "sj_notify"
  /\ UNCHANGED <<mtx, woken, thread, wpc, buffer, delivered, written, preClose,
                 closedReports, werr, call, nwrites, nstops>>
  /\ UNCHANGED <<cyc, afterClose, recdata, down>>
  /\ UNCHANGED <<netvars, restvars>>

\* mutant: stop_and_join leaves the queue as it is
CloseQue_KeepOpen(q) == q

\* the queue after stop_and_join's assignment
CloseQue(q) == None

\* stop_and_join, line 45: the queue becomes None; the guard is dropped
StopClose ==
  /\ mpc = "sj_close"
  /\ que' = [que EXCEPT ![call.s] = CloseQue(que[call.s])]
  /\ closedEver' = [closedEver EXCEPT ![call.s] = TRUE]
  /\ mtx' = [mtx EXCEPT ![call.s] = "free"]
  /\ mpc' = "sj_notify"
  /\ UNCHANGED <<woken, thread, wpc, buffer, delivered, written, preClose,
                 closedReports, werr, call, nwrites, nstops>>
  /\ UNCHANGED <<cyc, afterClose, recdata, down>>
  /\ UNCHANGED <<netvars, restvars>>

\* stop_and_join, line 46: notify_one, outside the lock
StopNotify ==
  /\ mpc = "sj_notify"
  /\ NotifyOne(call.s)
  /\ mpc' = "sj_join"
  /\ UNCHANGED <<que, mtx, thread, wpc, buffer, delivered, written, preClose,
                 closedEver, closedReports, werr, call, nwrites, nstops>>
  /\ UNCHANGED <<cyc, afterClose, recdata, down>>
  /\ UNCHANGED <<netvars, restvars>>

\* stop_and_join, line 47: join returns once the worker has left thread_loop
StopJoin ==
  /\ mpc = "sj_join"
  /\ wpc[call.s] = "done"
  /\ mpc' = call.ret
  /\ UNCHANGED <<tbvars, call, nwrites, nstops>>
  /\ UNCHANGED <<recdata, down>>
  /\ UNCHANGED <<netvars, restvars>>

\* ------------------------------------------------------------------ worker
\* wait_and_fill_buffer, line 104 (and the re-lock when cvar.wait returns)
WorkerLock(s) ==
  /\ wpc[s] = "fill"
  /\ mtx[s] = "free"
  /\ mtx' = [mtx EXCEPT ![s] = "worker"]
  /\ wpc' = [wpc EXCEPT ![s] = "locked"]
  /\ UNCHANGED <<que, woken, thread, buffer, delivered, written, preClose,
                 closedEver, closedReports, werr, mvars>>
  /\ UNCHANGED <<cyc, afterClose>>
  /\ UNCHANGED <<netvars, restvars>>

\* mutant: the whole queue is drained
DrainLen_All(q) == BLen(q)

\* lines 121-122: the number of bytes drained
DrainLen(q) == Min(BLen(q), BUFFER_SIZE)

\* lines 122-124: the scratch buffer after the drain
FillBuffer(buf, q) == Cat(buf, Take(q, DrainLen(q)))

\* lines 106-126 with the lock held: return false on None, wait on an empty
\* queue, else drain at most BUFFER_SIZE bytes into the buffer and return true
WorkerCheck(s) ==
  /\ wpc[s] = "locked"
  /\ mtx' = [mtx EXCEPT ![s] = "free"]
  /\ IF ~que[s].some
     THEN /\ wpc' = [wpc EXCEPT ![s] = "done"]
          /\ closedReports' = [closedReports EXCEPT ![s] = @ + 1]
          /\ UNCHANGED <<que, buffer, woken, cyc>>
     ELSE IF que[s].buf = <<>>
     THEN /\ wpc' = [wpc EXCEPT ![s] = "waiting"]
          /\ woken' = [woken EXCEPT ![s] = FALSE]
          /\ UNCHANGED <<que, buffer, closedReports, cyc>>
     ELSE /\ buffer' = [buffer EXCEPT ![s] = FillBuffer(buffer[s], que[s].buf)]
          /\ que' = [que EXCEPT ![s].buf = Drop(que[s].buf, DrainLen(que[s].buf))]
          /\ wpc' = [wpc EXCEPT ![s] = "deliver"]
          /\ cyc' = [cyc EXCEPT ![s] = IF AfterLoop THEN @ + 1 ELSE @]
          /\ UNCHANGED <<woken, closedReports>>
  /\ UNCHANGED <<thread, delivered, written, preClose, closedEver, werr, mvars>>
  /\ UNCHANGED <<afterClose>>
  /\ UNCHANGED <<netvars, restvars>>

\* line 118: cvar.wait returns after a notification
WorkerWake(s) ==
  /\ wpc[s] = "waiting"
  /\ woken[s]
  /\ wpc' = [wpc EXCEPT ![s] = "fill"]
  /\ woken' = [woken EXCEPT ![s] = FALSE]
  /\ UNCHANGED <<que, mtx, thread, buffer, delivered, written, preClose,
                 closedEver, closedReports, werr, mvars>>
  /\ UNCHANGED <<cyc, afterClose>>
  /\ UNCHANGED <<netvars, restvars>>

\* line 118: cvar.wait may also return spuriously
WorkerSpurious(s) ==
  /\ wpc[s] = "waiting"
  /\ ~woken[s]
  /\ wpc' = [wpc EXCEPT ![s] = "fill"]
  /\ UNCHANGED <<que, mtx, woken, thread, buffer, delivered, written, preClose,
                 closedEver, closedReports, werr, mvars>>
  /\ UNCHANGED <<cyc, afterClose>>
  /\ UNCHANGED <<netvars, restvars>>

\* mutant: the buffer is not cleared after new_slice
ClearBuffer_Keep(buf) == buf

\* line 99: the buffer after a successful new_slice
ClearBuffer(buf) == <<>>

\* lines 94-99: pass the buffer to new_slice; leave on Err, else clear it
WorkerDeliver(s) ==
  /\ wpc[s] = "deliver"
  /\ delivered' = [delivered EXCEPT ![s] = Cat(@, buffer[s])]
  /\ afterClose' = [afterClose EXCEPT ![s] = IF closedEver[s] THEN @ + 1 ELSE @]
  /\ \E ok \in BOOLEAN :
       IF ok
       THEN /\ buffer' = [buffer EXCEPT ![s] = ClearBuffer(buffer[s])]
            /\ wpc' = [wpc EXCEPT ![s] = "fill"]
            /\ werr' = werr
       ELSE /\ wpc' = [wpc EXCEPT ![s] = "done"]
            /\ werr' = [werr EXCEPT ![s] = TRUE]
            /\ buffer' = buffer
  /\ UNCHANGED <<que, mtx, woken, thread, written, preClose, closedEver,
                 closedReports, mvars>>
  /\ UNCHANGED <<cyc>>
  /\ UNCHANGED <<netvars, restvars>>

Worker(s) ==
  \/ WorkerLock(s)
  \/ WorkerCheck(s)
  \/ WorkerWake(s)
  \/ WorkerDeliver(s)

\* --------------------------------------------------------- fan-out server
\* b"info", b"start", b"stop" and the reply b"Hi, how are you?"
Info == <<105, 110, 102, 111>>
Start == <<115, 116, 97, 114, 116>>
Stop == <<115, 116, 111, 112>>
Reply == <<72, 105, 44, 32, 104, 111, 119, 32, 97, 114, 101, 32, 121, 111, 117, 63>>

\* the control datagrams tried: the three commands, "start\n" and the empty
\* payload
Datagrams == {Info, Start, Stop, Start \o <<10>>, <<>>}

\* the payloads passed to send_to_all (the empty one returns at once)
BlockData == {<<1>>, <<2>>}
SendBufs == BlockData \cup {<<>>}

Range(s) == {s[i] : i \in 1..Len(s)}

\* recv_from into buf: a datagram is cut to the buffer's length
RecvBuf(dg) == SubSeq(dg, 1, Min(Len(dg), RECV_BUF_LEN))

\* mutant: add_new_client pushes without looking for the address
AddNewClient_NoCheck(cl, addr) == Append(cl, addr)

\* add_new_client: push unless position() finds the address
AddNewClient(cl, addr) == IF addr \in Range(cl) THEN cl ELSE Append(cl, addr)

\* remove_client: retain the other addresses
RemoveClient(cl, addr) == SelectSeq(cl, LAMBDA r : r # addr)

\* mutant: a command is recognised by its first bytes
NewConnection_Prefix(cl, buf, addr) ==
  IF Len(buf) >= Len(Start) /\ SubSeq(buf, 1, Len(Start)) = Start
  THEN AddNewClient(cl, addr)
  ELSE IF Len(buf) >= Len(Stop) /\ SubSeq(buf, 1, Len(Stop)) = Stop
  THEN RemoveClient(cl, addr)
  ELSE cl

\* mutant: info registers the sender as start does
NewConnection_InfoAdds(cl, buf, addr) ==
  IF buf = Info \/ buf = Start THEN AddNewClient(cl, addr)
  ELSE IF buf = Stop THEN RemoveClient(cl, addr)
  ELSE cl

\* new_connection: the registry after the datagram buf from addr
NewConnection(cl, buf, addr) ==
  IF buf = Info THEN cl
  ELSE IF buf = Start THEN AddNewClient(cl, addr)
  ELSE IF buf = Stop THEN RemoveClient(cl, addr)
  ELSE cl

\* new_connection: send_info is called exactly for b"info"
SendsInfo(buf) == buf = Info

\* Vec::remove(i), i counted from 1 here
VecRemove(cl, i) == SubSeq(cl, 1, i - 1) \o SubSeq(cl, i + 1, Len(cl))

\* lines 153-159: the indices of the clients whose send failed, ascending
FailIdx(cl, F) ==
  SelectSeq([i \in 1..Len(cl) |-> i], LAMBDA i : cl[i] \in F)

RECURSIVE RemoveAll(_, _)
\* lines 161-163: remove the collected indices one after the other; Vec::remove
\* panics on an index beyond the end
RemoveAll(cl, idxs) ==
  IF idxs = <<>> THEN [clients |-> cl, panic |-> FALSE]
  ELSE IF Head(idxs) > Len(cl) THEN [clients |-> cl, panic |-> TRUE]
  ELSE RemoveAll(VecRemove(cl, Head(idxs)), Tail(idxs))

\* lines 153-155: one send_to per client, in registry order
SendsOf(cl, block) == [i \in 1..Len(cl) |-> [to |-> cl[i], data |-> block]]

\* mutant: the block goes to the free list as it is
ClearBlock_Keep(b) == b

\* line 165: block.clear()
ClearBlock(b) == <<>>

RECURSIVE Drain_KeepUnsent(_, _, _)
\* mutant: a block is popped only when there is a peer to send it to
Drain_KeepUnsent(st, fails, k) ==
  IF st.to_send = <<>> \/ st.clients = <<>> THEN st
  ELSE LET block == Head(st.to_send)
           r == RemoveAll(st.clients, FailIdx(st.clients, fails[k]))
           st1 == [st EXCEPT !.to_send = Tail(st.to_send),
                             !.sends = st.sends \o SendsOf(st.clients, block),
                             !.npopped = st.npopped + 1,
                             !.clients = r.clients]
       IN IF r.panic THEN [st1 EXCEPT !.panic = TRUE]
          ELSE Drain_KeepUnsent([st1 EXCEPT !.free = Append(st.free, <<>>)],
                                fails, k + 1)

RECURSIVE Drain(_, _, _)
\* lines 150-167: pop and broadcast every block; fails[k] are the addresses
\* whose send of the k-th block fails; st.sends collects the send_to calls
Drain(st, fails, k) ==
  IF st.to_send = <<>> THEN st
  ELSE LET block == Head(st.to_send)
           r == RemoveAll(st.clients, FailIdx(st.clients, fails[k]))
           st1 == [st EXCEPT !.to_send = Tail(st.to_send),
                             !.sends = st.sends \o SendsOf(st.clients, block),
                             !.npopped = st.npopped + 1,
                             !.clients = r.clients]
       IN IF r.panic THEN [st1 EXCEPT !.panic = TRUE]
          ELSE Drain([st1 EXCEPT !.free = Append(st.free, ClearBlock(block))],
                     fails, k + 1)

\* mutant: the block is pushed at the front of to_send
Enqueue_Front(q, block) == <<block>> \o q

\* line 82: to_send.push_back(block)
Enqueue(q, block) == Append(q, block)

\* the payloads that the send_to calls of `sends` carry to peer p
PayloadsTo(p, sends) ==
  LET s == SelectSeq(sends, LAMBDA r : r.to = p)
  IN [i \in 1..Len(s) |-> s[i].data]

Event(op, addr, payload, ok, fails, sends) ==
  [op |-> op, addr |-> addr, payload |-> payload, ok |-> ok, fails |-> fails,
   sends |-> sends]

\* poll_loop, UDP_TOKEN, lines 115-120: receive a datagram, new_connection;
\* send_info's send_to may fail, which is only printed
UdpEvent ==
  /\ loop = "running"
  /\ \E addr \in Addrs, dg \in Datagrams, ok \in BOOLEAN :
       LET buf == RecvBuf(dg)
           sends == IF SendsInfo(buf) THEN <<[to |-> addr, data |-> Reply]>>
                    ELSE <<>>
       IN /\ SendsInfo(buf) \/ ok
          /\ clients' = NewConnection(clients, buf, addr)
          /\ ev' = Event("udp", addr, buf, ok, <<>>, sends)
  /\ UNCHANGED <<to_send, free, loop, flag, exitReady, sendReady, enq, npopped,
                 poster, nsig>>
  /\ UNCHANGED <<tbvars, mvars, restvars>>

\* poll_loop, UDP_TOKEN, line 121: recv_from fails, read_err only prints
UdpError ==
  /\ loop = "running"
  /\ ev' = Event("read_err", "a", <<>>, FALSE, <<>>, <<>>)
  /\ UNCHANGED <<clients, to_send, free, loop, flag, exitReady, sendReady,
                 enq, npopped, poster, nsig>>
  /\ UNCHANGED <<tbvars, mvars, restvars>>

\* mutant: a block posted after the poll loop has exited is not queued
SendToAll_DropAfterExit ==
  /\ poster = "alive"
  /\ \E buf \in SendBufs :
       /\ ev' = Event("send_to_all", "a", buf,
                      buf = <<>> \/ loop # "panicked", <<>>, <<>>)
       /\ IF buf = <<>>
          THEN UNCHANGED <<to_send, free, sendReady, enq, poster>>
          ELSE IF loop = "panicked"
          THEN /\ poster' = "panicked"
               /\ UNCHANGED <<to_send, free, sendReady, enq>>
          ELSE IF loop = "exited"
          THEN UNCHANGED <<to_send, free, sendReady, enq, poster>>
          ELSE /\ Len(enq) < MaxBlocks
               /\ LET block == IF free = <<>> THEN <<>> ELSE free[Len(free)]
                  IN to_send' = Enqueue(to_send, block \o buf)
               /\ free' = IF free = <<>> THEN free
                          ELSE SubSeq(free, 1, Len(free) - 1)
               /\ enq' = Append(enq, buf)
               /\ sendReady' = TRUE
               /\ poster' = poster
  /\ UNCHANGED <<clients, loop, flag, exitReady, npopped, nsig>>
  /\ UNCHANGED <<tbvars, mvars, restvars>>

\* send_to_all: nothing for an empty buf; else a block, taken from the free
\* list if it has one, is filled with buf and queued, and readiness is set.
\* lock().unwrap() panics in the caller once the poll loop has panicked with
\* the lock held. ev.ok tells whether the call returned Ok.
SendToAll ==
  /\ poster = "alive"
  /\ \E buf \in SendBufs :
       /\ ev' = Event("send_to_all", "a", buf,
                      buf = <<>> \/ loop # "panicked", <<>>, <<>>)
       /\ IF buf = <<>>
          THEN UNCHANGED <<to_send, free, sendReady, enq, poster>>
          ELSE IF loop = "panicked"
          THEN /\ poster' = "panicked"
               /\ UNCHANGED <<to_send, free, sendReady, enq>>
          ELSE /\ Len(enq) < MaxBlocks
               /\ LET block == IF free = <<>> THEN <<>> ELSE free[Len(free)]
                  IN to_send' = Enqueue(to_send, block \o buf)
               /\ free' = IF free = <<>> THEN free
                          ELSE SubSeq(free, 1, Len(free) - 1)
               /\ enq' = Append(enq, buf)
               /\ sendReady' = TRUE
               /\ poster' = poster
  /\ UNCHANGED <<clients, loop, flag, exitReady, npopped, nsig>>
  /\ UNCHANGED <<tbvars, mvars, restvars>>

\* poll_loop, SEND_DATA_TOKEN: send_new_data
SendNewData ==
  /\ loop = "running"
  /\ sendReady
  /\ sendReady' = FALSE
  /\ \E fails \in [1..Len(to_send) -> SUBSET Range(clients)] :
       LET st == Drain([clients |-> clients, to_send |-> to_send, free |-> free,
                        sends |-> <<>>, npopped |-> npopped, panic |-> FALSE],
                       fails, 1)
       IN /\ clients' = st.clients
          /\ to_send' = st.to_send
          /\ free' = st.free
          /\ npopped' = st.npopped
          /\ loop' = IF st.panic THEN "panicked" ELSE "running"
          /\ ev' = Event("send_new_data", "a", <<>>, TRUE, fails, st.sends)
  /\ UNCHANGED <<flag, exitReady, enq, poster, nsig>>
  /\ UNCHANGED <<tbvars, mvars, restvars>>

\* mutant: the flag is stored only when the readiness could be raised
SignalDelivery_FlagIfRaised(ok) ==
  /\ nsig < MaxSignals
  /\ flag' = (flag \/ ok)
  /\ exitReady' = (exitReady \/ ok)
  /\ nsig' = nsig + 1
  /\ ev' = Event("signal", "a", <<>>, ok, <<>>, <<>>)
  /\ UNCHANGED <<clients, to_send, free, loop, sendReady, enq, npopped,
                 poster>>
  /\ UNCHANGED <<tbvars, mvars, restvars>>

\* the signal thread, exit_listener.rs lines 29-38, for one SIGINT or SIGTERM:
\* store the flag, then set_readiness, whose failure (ok = FALSE) is printed
SignalDelivery(ok) ==
  /\ nsig < MaxSignals
  /\ flag' = TRUE
  /\ exitReady' = (exitReady \/ ok)
  /\ nsig' = nsig + 1
  /\ ev' = Event("signal", "a", <<>>, ok, <<>>, <<>>)
  /\ UNCHANGED <<clients, to_send, free, loop, sendReady, enq, npopped,
                 poster>>
  /\ UNCHANGED <<tbvars, mvars, restvars>>

\* the first signal, its readiness raised
Signal ==
  /\ ~flag
  /\ SignalDelivery(TRUE)

\* poll_loop, EXIT_TOKEN: return if the latch is set
ExitEvent ==
  /\ loop = "running"
  /\ exitReady
  /\ exitReady' = FALSE
  /\ loop' = IF flag THEN "exited" ELSE loop
  /\ ev' = Event("exit", "a", <<>>, TRUE, <<>>, <<>>)
  /\ UNCHANGED <<clients, to_send, free, flag, sendReady, enq, npopped,
                 poster, nsig>>
  /\ UNCHANGED <<tbvars, mvars, restvars>>

\* NetServer::new: empty registry and queue, the poll loop running
InitNetServer ==
  /\ clients = <<>>
  /\ to_send = <<>>
  /\ free = <<>>
  /\ loop = "running"
  /\ flag = FALSE
  /\ exitReady = FALSE
  /\ sendReady = FALSE
  /\ enq = <<>>
  /\ npopped = 0
  /\ ev = Event("none", "a", <<>>, TRUE, <<>>, <<>>)
  /\ poster = "alive"
  /\ nsig = 0

InitNet ==
  /\ InitNetServer
  /\ NoPcmCall
  /\ NoEncoder
  /\ NoCapture
  /\ NoWriter
  /\ NoPktGen
  /\ NoLocks
  /\ InitSinks({})
  /\ recdata = <<>>
  /\ down = "no"
  /\ mpc = "idle"
  /\ call = NoCall
  /\ nwrites = 0
  /\ nstops = 0

NextNet ==
  \/ UdpEvent
  \/ UdpError
  \/ SendToAll
  \/ SendNewData
  \/ Signal
  \/ ExitEvent

SpecNet == InitNet /\ [][NextNet]_vars

\* the poll loop handles every token that is ready; datagrams, signals and
\* send_to_all calls are not guaranteed to come
FairNet == SpecNet /\ WF_vars(ExitEvent) /\ WF_vars(SendNewData)

\* the server with every signal delivery: repeated signals, and set_readiness
\* failing
NextSig ==
  \/ \E ok \in BOOLEAN : SignalDelivery(ok)
  \/ ExitEvent
  \/ UdpEvent
  \/ UdpError
  \/ SendToAll
  \/ SendNewData

SpecSig == InitNet /\ [][NextSig]_vars

\* the NetServer handle goes out of scope in the thread that owns it (the
\* broadcaster's receiver is dropped when its worker returns): NetServer has
\* no Drop, so its fields are released, the Arc of the queue and the
\* SetReadiness, and nothing is sent to the poll loop
DropNetServer ==
  /\ poster = "alive"
  /\ poster' = "dropped"
  /\ ev' = Event("drop", "a", <<>>, TRUE, <<>>, <<>>)
  /\ UNCHANGED <<clients, to_send, free, loop, flag, exitReady, sendReady,
                 enq, npopped, nsig>>
  /\ UNCHANGED <<tbvars, mvars, restvars>>

\* the server with the end of its handle
NextDrop ==
  \/ UdpEvent
  \/ UdpError
  \/ SendToAll
  \/ SendNewData
  \/ Signal
  \/ ExitEvent
  \/ DropNetServer

SpecDrop == InitNet /\ [][NextDrop]_vars

\* the poll loop handles every token that is ready
FairDrop == SpecDrop /\ WF_vars(ExitEvent) /\ WF_vars(SendNewData)

\* ------------------------------------- a client of one ThreadBuffer (SpecTB)
\* a call of write_data(data) on the server sink
ClientWrite ==
  /\ mpc = "idle"
  /\ nwrites < MaxWrites
  /\ \E data \in WriteData :
       /\ call' = [s |-> "server", data |-> data, ret |-> "idle"]
       /\ written' = [written EXCEPT !["server"] = Cat(@, data)]
       /\ preClose' = IF closedEver["server"] THEN preClose
                      ELSE [preClose EXCEPT !["server"] = Cat(@, data)]
  /\ nwrites' = nwrites + 1
  /\ mpc' = "wd_lock"
  /\ UNCHANGED <<que, mtx, woken, thread, wpc, buffer, delivered, closedEver,
                 closedReports, werr, nstops>>
  /\ UNCHANGED <<cyc, afterClose, recdata, down>>
  /\ UNCHANGED <<netvars, restvars>>

\* a call of stop_and_join (explicit, or made by Drop)
ClientStop ==
  /\ mpc = "idle"
  /\ nstops < MaxStops
  /\ call' = [s |-> "server", data |-> <<>>, ret |-> "idle"]
  /\ nstops' = nstops + 1
  /\ mpc' = "sj_take"
  /\ UNCHANGED <<tbvars, nwrites>>
  /\ UNCHANGED <<recdata, down>>
  /\ UNCHANGED <<netvars, restvars>>

InitTB ==
  /\ InitNetServer
  /\ NoPcmCall
  /\ NoEncoder
  /\ NoCapture
  /\ NoWriter
  /\ NoPktGen
  /\ NoLocks
  /\ InitSinks({"server"})
  /\ recdata = <<>>
  /\ down = "no"
  /\ mpc = "idle"
  /\ call = NoCall
  /\ nwrites = 0
  /\ nstops = 0

Calls ==
  \/ WriteLock
  \/ WriteBody
  \/ StopTake
  \/ StopLock
  \/ StopClose
  \/ StopNotify
  \/ StopJoin

NextTB ==
  \/ ClientWrite
  \/ ClientStop
  \/ Calls
  \/ Worker("server")
  \/ WorkerSpurious("server")

SpecTB == InitTB /\ [][NextTB]_vars

\* the scheduler runs every thread that can take a step, and a thread that
\* asks for the mutex again and again gets it (strong fairness: the other
\* thread releases it after a bounded critical section); a spurious wakeup
\* and the client's decision to make another call are not guaranteed
FairTB == SpecTB /\ SF_vars(Calls) /\ SF_vars(Worker("server"))

\* ------------------------------------------------------- record() (SpecRec)
\* the params main asks for (FloatLe, 2 channels, 44100 Hz), written with the
\* format's bytes_per_sample
Requested == [bps |-> 4, channels |-> 2, rate |-> 44100]
\* the params SndPcm::open may settle on with the capture device: the
\* requested ones, or 16-bit samples
Granted == {Requested, [bps |-> 2, channels |-> 2, rate |-> 44100]}
\* line 123: the capture buffer
RecBufferLen == 4068
\* SndPcm::bytes_per_frame
BytesPerFrame(p) == p.bps * p.channels
\* read_interleaved fills the whole frames that fit in the buffer
ReadLen(p) == (RecBufferLen \div BytesPerFrame(p)) * BytesPerFrame(p)
\* lines 83-87: a Resampler is made when the params differ
NewResampler(params, record_params) == params # record_params
\* Resampler::resample between two formats of one rate: every sample of src
\* becomes one sample of dst; the converted encoding of a run of bytes v is
\* written as a run of v + 2
Resample(data, src, dst) ==
  [i \in 1..Len(data) |->
     <<data[i][1] + 2,
       ((data[i][2] \div LayoutChannels) \div src.bps) * LayoutChannels * dst.bps>>]
\* mutant: the captured bytes are forwarded as they were read
Payload_Raw(c, raw) == raw
\* lines 133-136: what is forwarded of the bytes read
Payload(c, raw) ==
  IF c.resampler THEN Resample(raw, c.record_params, c.params) ELSE raw
\* the capture state at line 123
Capture(params, record_params) ==
  [params |-> params, record_params |-> record_params,
   resampler |-> NewResampler(params, record_params),
   raw |-> <<>>, resampled |-> FALSE, latched |-> FALSE, late |-> 0]
\* what read_interleaved returns in iteration i; consecutive blocks carry
\* different sample values, so that their order shows in what a sink receives
CaptureData(i, p) == { << <<i % 2, ReadLen(p)>> >> }

HasPlayer == wpc["player"] # "absent"

\* the bookkeeping of a write_data(data) call on sink s
NoteWrite(s, data) ==
  /\ written' = [written EXCEPT ![s] = Cat(@, data)]
  /\ preClose' = IF closedEver[s] THEN preClose
                 ELSE [preClose EXCEPT ![s] = Cat(@, data)]

\* mutant: the loop breaks on what the latch was at the test before this one
RecLoopTest_Stale ==
  /\ mpc = "loop_test"
  /\ flag \/ nwrites < MaxReads
  /\ mpc' = IF cap.latched THEN "rec_stop" ELSE "read"
  /\ down' = IF cap.latched THEN "break" ELSE down
  /\ cap' = [cap EXCEPT !.latched = flag]
  /\ UNCHANGED <<tbvars, call, nwrites, nstops, recdata>>
  /\ UNCHANGED <<netvars, pcm, dev, enc, taw, pkt, lk>>

\* lines 125-129: test the latch; break if it is set
RecLoopTest ==
  /\ mpc = "loop_test"
  /\ flag \/ nwrites < MaxReads
  /\ mpc' = IF flag THEN "rec_stop" ELSE "read"
  /\ down' = IF flag THEN "break" ELSE down
  /\ cap' = [cap EXCEPT !.latched = flag]
  /\ UNCHANGED <<tbvars, call, nwrites, nstops, recdata>>
  /\ UNCHANGED <<netvars, pcm, dev, enc, taw, pkt, lk>>

\* lines 131-136: read_interleaved, then resample if there is a resampler;
\* an error of either returns from record
RecRead ==
  /\ mpc = "read"
  /\ \/ \E raw \in CaptureData(nwrites, cap.record_params) :
          \/ /\ recdata' = Payload(cap, raw)
             /\ cap' = [cap EXCEPT !.raw = raw, !.resampled = cap.resampler,
                                   !.late = IF flag THEN @ + 1 ELSE @]
             /\ nwrites' = nwrites + 1
             /\ mpc' = "w_player"
          \/ /\ cap.resampler
             /\ cap' = [cap EXCEPT !.late = IF flag THEN @ + 1 ELSE @]
             /\ mpc' = "drop_server"
             /\ UNCHANGED <<recdata, nwrites>>
     \/ /\ cap' = [cap EXCEPT !.late = IF flag THEN @ + 1 ELSE @]
        /\ mpc' = "drop_server"
        /\ UNCHANGED <<recdata, nwrites>>
  /\ UNCHANGED <<tbvars, call, nstops, down>>
  /\ UNCHANGED <<netvars, pcm, dev, enc, taw, pkt, lk>>

\* lines 138-140: write_data on the player sink, if there is one
RecWritePlayer ==
  /\ mpc = "w_player"
  /\ IF HasPlayer
     THEN /\ call' = [s |-> "player", data |-> recdata, ret |-> "w_server"]
          /\ NoteWrite("player", recdata)
          /\ mpc' = "wd_lock"
     ELSE /\ mpc' = "w_server"
          /\ UNCHANGED <<call, written, preClose>>
  /\ UNCHANGED <<que, mtx, woken, thread, wpc, buffer, delivered, closedEver,
                 closedReports, werr, cyc, afterClose, nwrites, nstops, recdata, down>>
  /\ UNCHANGED <<netvars, restvars>>

\* line 141: write_data on the server sink
RecWriteServer ==
  /\ mpc = "w_server"
  /\ call' = [s |-> "server", data |-> recdata, ret |-> "loop_test"]
  /\ NoteWrite("server", recdata)
  /\ mpc' = "wd_lock"
  /\ UNCHANGED <<que, mtx, woken, thread, wpc, buffer, delivered, closedEver,
                 closedReports, werr, cyc, afterClose, nwrites, nstops, recdata, down>>
  /\ UNCHANGED <<netvars, restvars>>

\* mutant: the player sink is not stopped before the server sink
RecStop_SkipPlayer ==
  /\ mpc = "rec_stop"
  /\ \E ok \in BOOLEAN :
       /\ mpc' = IF ok THEN "stop_server" ELSE "drop_server"
       /\ down' = IF ok THEN "stop_ok" ELSE "stop_err"
  /\ UNCHANGED <<tbvars, call, nwrites, nstops, recdata>>
  /\ UNCHANGED <<netvars, restvars>>

\* line 144: pcm_recorder.stop()?; an error returns from record
RecStop ==
  /\ mpc = "rec_stop"
  /\ \E ok \in BOOLEAN :
       /\ mpc' = IF ok THEN "stop_player" ELSE "drop_server"
       /\ down' = IF ok THEN "stop_ok" ELSE "stop_err"
  /\ UNCHANGED <<tbvars, call, nwrites, nstops, recdata>>
  /\ UNCHANGED <<netvars, restvars>>

\* line 145: thread_player.as_mut().map(|t| t.stop_and_join())
RecStopPlayer ==
  /\ mpc = "stop_player"
  /\ IF HasPlayer
     THEN /\ call' = [s |-> "player", data |-> <<>>, ret |-> "stop_server"]
          /\ mpc' = "sj_take"
     ELSE /\ mpc' = "stop_server"
          /\ call' = call
  /\ UNCHANGED <<tbvars, nwrites, nstops, recdata, down>>
  /\ UNCHANGED <<netvars, restvars>>

\* line 146: thread_server_writer.stop_and_join()
RecStopServer ==
  /\ mpc = "stop_server"
  /\ call' = [s |-> "server", data |-> <<>>, ret |-> "drop_server"]
  /\ mpc' = "sj_take"
  /\ UNCHANGED <<tbvars, nwrites, nstops, recdata, down>>
  /\ UNCHANGED <<netvars, restvars>>

\* mutant: the server ThreadBuffer is let go without Drop's stop_and_join
RecDropServer_Forget ==
  /\ mpc = "drop_server"
  /\ mpc' = "drop_player"
  /\ UNCHANGED <<tbvars, call, nwrites, nstops, recdata, down>>
  /\ UNCHANGED <<netvars, restvars>>

\* leaving record: thread_server_writer, declared last, is dropped first;
\* Drop calls stop_and_join
RecDropServer ==
  /\ mpc = "drop_server"
  /\ call' = [s |-> "server", data |-> <<>>, ret |-> "drop_player"]
  /\ mpc' = "sj_take"
  /\ UNCHANGED <<tbvars, nwrites, nstops, recdata, down>>
  /\ UNCHANGED <<netvars, restvars>>

\* leaving record: thread_player is dropped
RecDropPlayer ==
  /\ mpc = "drop_player"
  /\ IF HasPlayer
     THEN /\ call' = [s |-> "player", data |-> <<>>, ret |-> "returned"]
          /\ mpc' = "sj_take"
     ELSE /\ mpc' = "returned"
          /\ call' = call
  /\ UNCHANGED <<tbvars, nwrites, nstops, recdata, down>>
  /\ UNCHANGED <<netvars, restvars>>

\* record is entered at line 123 with the sinks built: the server sink always,
\* the player sink if should_play_locally
InitRec ==
  /\ InitNetServer
  /\ NoPcmCall
  /\ NoEncoder
  /\ \E rp \in Granted : cap = Capture(Requested, rp)
  /\ NoWriter
  /\ NoPktGen
  /\ NoLocks
  /\ \E play \in BOOLEAN :
       InitSinks(IF play THEN {"player", "server"} ELSE {"server"})
  /\ mpc = "loop_test"
  /\ call = NoCall
  /\ nwrites = 0
  /\ nstops = 0
  /\ recdata = <<>>
  /\ down = "no"

RecMain ==
  \/ RecLoopTest
  \/ RecRead
  \/ RecWritePlayer
  \/ RecWriteServer
  \/ RecStop
  \/ RecStopPlayer
  \/ RecStopServer
  \/ RecDropServer
  \/ RecDropPlayer
  \/ Calls

NextRec ==
  \/ RecMain
  \/ Signal
  \/ \E s \in Sinks : Worker(s)
  \/ \E s \in Sinks : WorkerSpurious(s)

SpecRec == InitRec /\ [][NextRec]_vars

\* every thread that can run does, and a thread asking for a mutex gets it;
\* the signal and spurious wakeups are not guaranteed
FairRec ==
  /\ SpecRec
  /\ SF_vars(RecMain)
  /\ \A s \in Sinks : SF_vars(Worker(s))

\* ------------------------------------------------------ SndPcm (SpecPcm)
\* Format::bytes_per_sample of U8, S16Le, FloatLe, and the channel counts
SampleBytes == {1, 2, 4}
Channels == {1, 2}
\* period sizes in frames (SndPcm.buffer_size)
Periods == {1, 2}
\* an errno other than EAGAIN and EPIPE (EIO), as the device returns it
OtherErrs == {-5}

\* mutant: the frame count is rounded up
BytesQtyToFramesQty_RoundUp(bpf, bytes_qty) == (bytes_qty + bpf - 1) \div bpf

\* bytes_qty_to_frames_qty, frames_qty_to_bytes_qty
BytesQtyToFramesQty(bpf, bytes_qty) == bytes_qty \div bpf
FramesQtyToBytesQty(bpf, frames_qty) == frames_qty * bpf

\* the caller's buffer: byte i of it is written i
SrcBuffer(len) == [i \in 1..len |-> i]

\* a call of read_interleaved or write_interleaved on a buffer of len bytes
PcmCall(op, bpf, period, len) ==
  [pc |-> "call", op |-> op, bpf |-> bpf, period |-> period, len |-> len,
   total |-> 0, todo |-> 0, start |-> 0, clen |-> 0, ctodo |-> 0,
   res |-> "none", n |-> 0, errno |-> 0, at |-> "none"]

\* the call returns Err(AlsaError(errno)) raised at `at`
PcmErr(errno, at) ==
  [pcm EXCEPT !.pc = "done", !.res = "err", !.errno = errno, !.at = at]

\* what snd_pcm_readi / snd_pcm_writei may return for a request of `frames`
\* frames: -EPIPE on a device in XRun, else -EAGAIN, another error, or the
\* number of frames transferred, at most `frames`
DevRet(frames) ==
  IF dev.state = "XRun" THEN {-EPIPE}
  ELSE {-EAGAIN} \cup OtherErrs \cup 0..frames

\* a return of -EAGAIN or of zero frames is taken only MaxIo times
DevAllowed(r) == r \notin {0, -EAGAIN} \/ dev.nio < MaxIo

\* the device overruns or underruns while it runs (MaxIo times at most)
DevXRun ==
  /\ pcm.pc \in {"rd_loop", "rd_wait", "wr_loop", "wi_loop", "wi_wait"}
  /\ dev.state = "Running"
  /\ dev.nxrun < MaxIo
  /\ dev' = [dev EXCEPT !.state = "XRun", !.nxrun = @ + 1]
  /\ pcm' = pcm
  /\ UNCHANGED <<tbvars, mvars, netvars, enc, auxvars>>

\* read_interleaved, lines 166-169
ReadInterleavedCall ==
  /\ pcm.pc = "call" /\ pcm.op = "read"
  /\ LET total_bytes == FramesQtyToBytesQty(pcm.bpf,
                          BytesQtyToFramesQty(pcm.bpf, pcm.len))
     IN pcm' = [pcm EXCEPT !.pc = "rd_loop", !.total = total_bytes,
                           !.todo = total_bytes]
  /\ dev' = dev
  /\ UNCHANGED <<tbvars, mvars, netvars, enc, auxvars>>

\* read_interleaved, lines 171-202: one turn of the loop up to the wait, or
\* the return of total_bytes
ReadInterleavedLoop ==
  /\ pcm.pc = "rd_loop"
  /\ IF pcm.todo = 0
     THEN /\ pcm' = [pcm EXCEPT !.pc = "done", !.res = "ok", !.n = pcm.total]
          /\ dev' = dev
     ELSE \E res \in DevRet(BytesQtyToFramesQty(pcm.bpf, pcm.todo)) :
            /\ DevAllowed(res)
            /\ IF res = -EAGAIN
               THEN /\ pcm' = [pcm EXCEPT !.pc = "rd_wait"]
                    /\ dev' = [dev EXCEPT !.nio = @ + 1]
               ELSE IF res < 0
               THEN /\ pcm' = PcmErr(-res, "readi")
                    /\ dev' = dev
               ELSE LET bytes_read == FramesQtyToBytesQty(pcm.bpf, res)
                    IN /\ pcm' = [pcm EXCEPT
                                    !.todo = @ - bytes_read,
                                    !.pc = IF pcm.todo - bytes_read > 0
                                           THEN "rd_wait" ELSE "rd_loop"]
                       /\ dev' = [dev EXCEPT
                                    !.state = "Running",
                                    !.given = @ + bytes_read,
                                    !.nio = IF res = 0 THEN @ + 1 ELSE @]
  /\ UNCHANGED <<tbvars, mvars, netvars, enc, auxvars>>

\* wait_for_data(100)?: snd_pcm_wait returns 0 or 1, or -EPIPE on a device in
\* XRun, or another error
WaitForData(back, at) ==
  \/ /\ dev.state # "XRun"
     /\ pcm' = [pcm EXCEPT !.pc = back]
  \/ /\ dev.state = "XRun"
     /\ pcm' = PcmErr(EPIPE, at)
  \/ \E e \in OtherErrs : pcm' = PcmErr(-e, at)

\* read_interleaved, lines 185 and 198
ReadInterleavedWait ==
  /\ pcm.pc = "rd_wait"
  /\ WaitForData("rd_loop", "wait")
  /\ dev' = dev
  /\ UNCHANGED <<tbvars, mvars, netvars, enc, auxvars>>

\* write_interleaved, lines 206-211
WriteInterleavedCall ==
  /\ pcm.pc = "call" /\ pcm.op = "write"
  /\ LET total_bytes == FramesQtyToBytesQty(pcm.bpf,
                          BytesQtyToFramesQty(pcm.bpf, pcm.len))
     IN pcm' = [pcm EXCEPT !.pc = "wr_loop", !.total = total_bytes,
                           !.todo = total_bytes]
  /\ dev' = dev
  /\ UNCHANGED <<tbvars, mvars, netvars, enc, auxvars>>

\* write_interleaved, lines 213-219: the next sub_buffer, of at most a period,
\* is passed to write_i; or the return of Ok
WriteInterleavedLoop ==
  /\ pcm.pc = "wr_loop"
  /\ IF pcm.todo = 0
     THEN pcm' = [pcm EXCEPT !.pc = "done", !.res = "ok"]
     ELSE LET buf_size == Min(FramesQtyToBytesQty(pcm.bpf, pcm.period),
                              pcm.todo)
          IN pcm' = [pcm EXCEPT !.pc = "wi_loop",
                                !.start = pcm.total - pcm.todo,
                                !.clen = buf_size, !.ctodo = buf_size]
  /\ dev' = dev
  /\ UNCHANGED <<tbvars, mvars, netvars, enc, auxvars>>

\* PcmState
PcmStates == {"Open", "Setup", "Prepared", "Running", "XRun", "Draining",
              "Paused", "Suspended", "Disconnected"}

\* what snd_pcm_status and snd_pcm_prepare may return
CallRet == {0} \cup OtherErrs

\* mutant: the device is prepared whatever its state
Xrun_PrepareAlways(errnum, state, status_res, prepare_res) ==
  IF status_res < 0
  THEN [ok |-> FALSE, errno |-> -status_res, at |-> "status"]
  ELSE IF prepare_res < 0
  THEN [ok |-> FALSE, errno |-> -prepare_res, at |-> "prepare"]
  ELSE [ok |-> TRUE, errno |-> 0, at |-> "ok"]

\* xrun(errnum), lines 321-330, on a device whose status reports `state`:
\* Ok after prepare if the state is XRun, else the error of errnum; the
\* errors of the status query and of prepare are returned by try_snd!
Xrun(errnum, state, status_res, prepare_res) ==
  IF status_res < 0
  THEN [ok |-> FALSE, errno |-> -status_res, at |-> "status"]
  ELSE IF state = "XRun"
  THEN (IF prepare_res < 0
        THEN [ok |-> FALSE, errno |-> -prepare_res, at |-> "prepare"]
        ELSE [ok |-> TRUE, errno |-> 0, at |-> "ok"])
  ELSE [ok |-> FALSE, errno |-> -errnum, at |-> "xrun"]

\* mutant: after the recovery write_i gives up the rest of its buffer
AfterXrun_SkipChunk(ctodo) == 0

\* write_i, line 269: continue, with bytes_to_write as it was
AfterXrun(ctodo) == ctodo

\* bytes_to_write after line 274 for a negative res: res as usize is
\* 2^64 + res, so bytes_written is 2^64 - (-res) * bpf and the subtraction,
\* modulo 2^64, adds (-res) * bpf
WrappedCounter(ctodo, res, bpf) == ctodo + (-res) * bpf

\* write_i, lines 250-281: one turn of the loop up to the wait, or the return
\* to write_interleaved (line 220). A negative res other than -EAGAIN and
\* -EPIPE reaches frames_qty_to_bytes_qty: a build with overflow checks
\* panics there; a build without them wraps the counter, waits (line 277),
\* returns the error of the wait if it fails, and panics otherwise at the
\* next slice, its start beyond the buffer (lines 253-254).
WriteILoop ==
  /\ pcm.pc = "wi_loop"
  /\ IF pcm.ctodo = 0
     THEN /\ pcm' = [pcm EXCEPT !.pc = "wr_loop", !.todo = @ - pcm.clen]
          /\ dev' = dev
     ELSE \E res \in DevRet(BytesQtyToFramesQty(pcm.bpf, pcm.ctodo)) :
            /\ DevAllowed(res)
            /\ IF res = -EAGAIN
               THEN /\ pcm' = [pcm EXCEPT !.pc = "wi_wait"]
                    /\ dev' = [dev EXCEPT !.nio = @ + 1]
               ELSE IF res = -EPIPE
               THEN \E status_res, prepare_res \in CallRet :
                      LET x == Xrun(res, dev.state, status_res, prepare_res)
                      IN IF x.ok
                         THEN /\ pcm' = [pcm EXCEPT
                                           !.ctodo = AfterXrun(pcm.ctodo)]
                              /\ dev' = [dev EXCEPT !.state = "Prepared",
                                                    !.recov = @ + 1]
                         ELSE /\ pcm' = PcmErr(x.errno, x.at)
                              /\ dev' = dev
               ELSE IF res < 0
               THEN /\ \/ pcm' = [pcm EXCEPT !.pc = "done", !.res = "panic",
                                             !.errno = -res, !.at = "writei"]
                       \/ pcm' = [pcm EXCEPT !.pc = "done", !.res = "panic",
                                    !.errno = -res, !.at = "slice",
                                    !.ctodo = WrappedCounter(@, res, pcm.bpf)]
                       \/ \E e \in OtherErrs :
                            pcm' = [PcmErr(-e, "wait") EXCEPT
                                      !.ctodo = WrappedCounter(@, res, pcm.bpf)]
                    /\ dev' = dev
               ELSE LET bytes_written == FramesQtyToBytesQty(pcm.bpf, res)
                        cursor == pcm.start + (pcm.clen - pcm.ctodo)
                    IN /\ pcm' = [pcm EXCEPT
                                    !.ctodo = @ - bytes_written,
                                    !.pc = IF pcm.ctodo - bytes_written > 0
                                           THEN "wi_wait" ELSE "wi_loop"]
                       /\ dev' = [dev EXCEPT
                                    !.state = "Running",
                                    !.got = @ \o SubSeq(SrcBuffer(pcm.len),
                                              cursor + 1, cursor + bytes_written),
                                    !.nio = IF res = 0 THEN @ + 1 ELSE @]
  /\ UNCHANGED <<tbvars, mvars, netvars, enc, auxvars>>

\* write_i, lines 264 and 277
WriteIWait ==
  /\ pcm.pc = "wi_wait"
  /\ WaitForData("wi_loop", "wait")
  /\ dev' = dev
  /\ UNCHANGED <<tbvars, mvars, netvars, enc, auxvars>>

\* a SndPcm opened with some format and channels, its device prepared, running
\* or in XRun, and one call of read_interleaved or write_interleaved
InitPcm ==
  /\ InitNetServer
  /\ NoEncoder
  /\ NoCapture
  /\ NoWriter
  /\ NoPktGen
  /\ NoLocks
  /\ InitSinks({})
  /\ recdata = <<>>
  /\ down = "no"
  /\ mpc = "idle"
  /\ call = NoCall
  /\ nwrites = 0
  /\ nstops = 0
  /\ \E op \in {"read", "write"}, sb \in SampleBytes, ch \in Channels,
        period \in Periods, len \in 0..MaxBufLen :
       pcm = PcmCall(op, sb * ch, period, len)
  /\ \E st \in {"Prepared", "Running", "XRun"} :
       dev = [state |-> st, given |-> 0, got |-> <<>>, nio |-> 0, nxrun |-> 0,
              recov |-> 0]

NextPcm ==
  \/ ReadInterleavedCall
  \/ ReadInterleavedLoop
  \/ ReadInterleavedWait
  \/ WriteInterleavedCall
  \/ WriteInterleavedLoop
  \/ WriteILoop
  \/ WriteIWait
  \/ DevXRun

SpecPcm == InitPcm /\ [][NextPcm]_vars

\* ------------------------------------------------- xrun alone (SpecXrun)
\* a call of xrun(errnum) on a device in `state`, with the results that the
\* status query and prepare will give
XrunArgs(errnum, state, status_res, prepare_res) ==
  [pc |-> "call", op |-> "xrun", errnum |-> errnum, state |-> state,
   status_res |-> status_res, prepare_res |-> prepare_res,
   res |-> "none", errno |-> 0, at |-> "none"]

\* xrun(errnum): the status is queried, the device prepared if it is in XRun
XrunCall ==
  /\ pcm.pc = "call" /\ pcm.op = "xrun"
  /\ LET x == Xrun(pcm.errnum, dev.state, pcm.status_res, pcm.prepare_res)
     IN /\ pcm' = [pcm EXCEPT !.pc = "done",
                              !.res = IF x.ok THEN "ok" ELSE "err",
                              !.errno = x.errno, !.at = x.at]
        /\ dev' = IF x.ok
                  THEN [dev EXCEPT !.state = "Prepared", !.recov = @ + 1]
                  ELSE dev
  /\ UNCHANGED <<tbvars, mvars, netvars, enc, auxvars>>

\* a device in any state and a call of xrun for some error number
InitXrun ==
  /\ InitNetServer
  /\ NoEncoder
  /\ NoCapture
  /\ NoWriter
  /\ NoPktGen
  /\ NoLocks
  /\ InitSinks({})
  /\ recdata = <<>>
  /\ down = "no"
  /\ mpc = "idle"
  /\ call = NoCall
  /\ nwrites = 0
  /\ nstops = 0
  /\ \E errnum \in {-EPIPE} \cup OtherErrs, st \in PcmStates,
        status_res \in CallRet, prepare_res \in CallRet :
       /\ pcm = XrunArgs(errnum, st, status_res, prepare_res)
       /\ dev = [state |-> st, given |-> 0, got |-> <<>>, nio |-> 0,
                 nxrun |-> 0, recov |-> 0]

NextXrun == XrunCall

SpecXrun == InitXrun /\ [][NextXrun]_vars

\* ------------------------------------------- the player sink (SpecPlay)
\* AudioParams.channels of the data model
ParamChannels == 1..8

\* a playback SndPcm opened with frames of bpf bytes, no call in progress
PcmOpened(bpf) == [PcmCall("write", bpf, 1, 0) EXCEPT !.pc = "opened"]

\* whole-frame payloads: one frame, and the whole frames just below and just
\* above BUFFER_SIZE bytes
FramePayloadLens(bpf) ==
  {bpf, BytesQtyToFramesQty(bpf, BUFFER_SIZE) * bpf,
   (BytesQtyToFramesQty(bpf, BUFFER_SIZE) + 1) * bpf}

\* record's thread_player.write_data(data) with a payload of whole frames
PlayerWrite ==
  /\ mpc = "idle"
  /\ nwrites < MaxWrites
  /\ \E n \in FramePayloadLens(pcm.bpf) :
       LET data == << <<nwrites % 2, n>> >>
       IN /\ call' = [s |-> "player", data |-> data, ret |-> "idle"]
          /\ written' = [written EXCEPT !["player"] = Cat(@, data)]
          /\ preClose' = [preClose EXCEPT !["player"] = Cat(@, data)]
  /\ nwrites' = nwrites + 1
  /\ mpc' = "wd_lock"
  /\ UNCHANGED <<que, mtx, woken, thread, wpc, buffer, delivered, closedEver,
                 closedReports, werr, nstops>>
  /\ UNCHANGED <<cyc, afterClose, recdata, down>>
  /\ UNCHANGED <<netvars, restvars>>

\* the player's ThreadBuffer, its SndPcm opened with some AudioParams
InitPlay ==
  /\ InitNetServer
  /\ NoEncoder
  /\ NoCapture
  /\ NoWriter
  /\ NoPktGen
  /\ NoLocks
  /\ InitSinks({"player"})
  /\ recdata = <<>>
  /\ down = "no"
  /\ mpc = "idle"
  /\ call = NoCall
  /\ nwrites = 0
  /\ nstops = 0
  /\ \E sb \in SampleBytes, ch \in ParamChannels : pcm = PcmOpened(sb * ch)
  /\ dev = [state |-> "Prepared", given |-> 0, got |-> <<>>, nio |-> 0,
            nxrun |-> 0, recov |-> 0]

NextPlay ==
  \/ PlayerWrite
  \/ WriteLock
  \/ WriteBody
  \/ Worker("player")
  \/ WorkerSpurious("player")

SpecPlay == InitPlay /\ [][NextPlay]_vars

\* ----------------------------------------------------- Encoder (SpecEnc)
\* ffmpeg_const.rs: AVERROR_EOF = -MKTAG('E', 'O', 'F', ' ')
AVERROR_EOF == -541478725

\* blocks passed to ThreadServerWriter::new_slice
MaxSlices == 2
\* length of one such block
MaxSliceLen == 6
\* length of the codec's list of sample formats
MaxFmts == 2

\* AudioSampleFormat: the interleaved formats and their planar variants
Interleaved == {"U8", "S16Le", "FloatLe"}
Planar == {"U8P", "S16LeP", "FloatLeP"}
Formats == Interleaved \cup Planar

IsPlanar(f) == f \in Planar
ToPlanar(f) ==
  CASE f = "U8" -> "U8P" [] f = "S16Le" -> "S16LeP" [] f = "FloatLe" -> "FloatLeP"
    [] OTHER -> f
ToInterleaved(f) ==
  CASE f = "U8P" -> "U8" [] f = "S16LeP" -> "S16Le" [] f = "FloatLeP" -> "FloatLe"
    [] OTHER -> f

\* get_sample_size / av_get_bytes_per_sample
GetSampleSize(f) ==
  CASE ToInterleaved(f) = "U8" -> 1
    [] ToInterleaved(f) = "S16Le" -> 2
    [] ToInterleaved(f) = "FloatLe" -> 4

\* get_supported_sample_formats: the codec's list, its formats distinct
SupportedLists ==
  { l \in UNION { [1..n -> Formats] : n \in 0..MaxFmts } :
      \A i, j \in 1..Len(l) : i # j => l[i] # l[j] }

Contains(l, f) == \E i \in 1..Len(l) : l[i] = f

\* the closure supported_interleaved_formats, lines 335-340
SupportedInterleavedFormats(supported) ==
  [i \in 1..Len(supported) |-> ToInterleaved(supported[i])]

UnsupportedSampleFormatError(format, supported) ==
  [ok |-> FALSE, fmt |-> format,
   supported |-> SupportedInterleavedFormats(supported)]

\* mutant: a planar request is accepted when the codec supports it
SetAndValidateSampleFmt_AcceptPlanar(format, supported) ==
  IF Contains(supported, format)
  THEN [ok |-> TRUE, fmt |-> format, supported |-> <<>>]
  ELSE IF Contains(supported, ToPlanar(format))
  THEN [ok |-> TRUE, fmt |-> ToPlanar(format), supported |-> <<>>]
  ELSE UnsupportedSampleFormatError(format, supported)

\* set_and_validate_sample_fmt: the sample_fmt set on the context, or the
\* error
SetAndValidateSampleFmt(format, supported) ==
  IF IsPlanar(format)
  THEN UnsupportedSampleFormatError(format, supported)
  ELSE IF Contains(supported, format)
  THEN [ok |-> TRUE, fmt |-> format, supported |-> <<>>]
  ELSE IF Contains(supported, ToPlanar(format))
  THEN [ok |-> TRUE, fmt |-> ToPlanar(format), supported |-> <<>>]
  ELSE UnsupportedSampleFormatError(format, supported)

\* the codec's frame_size in samples, and an error of the codec library other
\* than EAGAIN and EOF (ENOMEM)
FrameSizes == {1, 2}
CodecErrs == {-12}

\* get_frame_size_in_bytes
GetFrameSizeInBytes(frame_size, channels, bytes_per_sample) ==
  frame_size * channels * bytes_per_sample

\* is_again_or_eof
IsAgainOrEof(err_num) == err_num = -EAGAIN \/ err_num = AVERROR_EOF

\* an Encoder about to be constructed for `format` on a codec whose sample
\* formats are `supported`
EncNew(format, supported, frame_size) ==
  [pc |-> "new", fmt |-> format, supported |-> supported,
   frame_size |-> frame_size, size |-> 0, is_planar |-> FALSE,
   write_buf |-> <<>>, total |-> 0, frames |-> <<>>, input |-> <<>>,
   pkts |-> 0, nslices |-> 0, nsent |-> 0, npkts |-> 0, errno |-> 0,
   at |-> "none"]

\* the call in progress returns Err raised at `at`
EncErr(e, errno, at) == [e EXCEPT !.pc = "failed", !.errno = errno, !.at = at]

\* block k of the captured stream: its bytes are numbered through the stream
Slice(from, n) == [i \in 1..n |-> from + i]

\* copy_planar_from_slice: sample k of channel ch goes to plane ch at k
CopyPlanarFromSlice(buf, sample_size, channels) ==
  [ch \in 1..channels |->
     [i \in 1..(Len(buf) \div channels) |->
        buf[((i - 1) \div sample_size) * sample_size * channels
            + (ch - 1) * sample_size + ((i - 1) % sample_size) + 1]]]

\* copy_interleaved_from_slice: data[0] is the slice
CopyInterleavedFromSlice(buf) == <<buf>>

\* mutant: the frame is filled from the start of the accumulator
FrameSource_FromStart(write_buf, total_copied, size) == SubSeq(write_buf, 1, size)

\* the part of the accumulator that copy_from_slice copies: buf[..self.size]
\* of &self.write_buf[total_copied..]
FrameSource(write_buf, total_copied, size) ==
  SubSeq(write_buf, total_copied + 1, total_copied + size)

\* Encoder::new, the codec found and its context allocated: the format is
\* negotiated; opening the codec and the later allocations may fail
\* (ok = FALSE)
EncoderNew ==
  /\ enc.pc = "new"
  /\ \E ok \in BOOLEAN :
       LET r == SetAndValidateSampleFmt(enc.fmt, enc.supported)
       IN enc' = IF ~r.ok
                 THEN [enc EXCEPT !.pc = "new_failed", !.at = "sample_fmt",
                                  !.supported = r.supported]
                 ELSE IF ~ok
                 THEN [enc EXCEPT !.pc = "new_failed", !.at = "open",
                                  !.supported = <<>>]
                 ELSE [enc EXCEPT !.pc = "idle", !.fmt = r.fmt,
                         !.supported = <<>>,
                         !.is_planar = IsPlanar(r.fmt),
                         !.size = GetFrameSizeInBytes(enc.frame_size,
                                    LayoutChannels, GetSampleSize(r.fmt))]
  /\ UNCHANGED <<tbvars, mvars, netvars, pcm, dev, auxvars>>

\* new_slice calls encoder.write(data): the slice is appended to write_buf
EncWriteCall ==
  /\ enc.pc = "idle"
  /\ enc.nslices < MaxSlices
  /\ \E n \in 1..MaxSliceLen :
       LET in_buf == Slice(Len(enc.input), n)
       IN enc' = [enc EXCEPT !.pc = "wr_loop",
                    !.write_buf = enc.write_buf \o in_buf,
                    !.input = enc.input \o in_buf,
                    !.total = 0, !.nsent = 0, !.nslices = @ + 1]
  /\ UNCHANGED <<tbvars, mvars, netvars, pcm, dev, auxvars>>

\* what avcodec_send_frame may return: 0, an error, or EAGAIN while the
\* codec holds output that has not been received
SendFrameRet ==
  {0} \cup CodecErrs \cup (IF enc.pkts > 0 THEN {-EAGAIN} ELSE {})

\* Encoder::write, one turn of the loop (lines 59-69), or the drain and the
\* return (lines 71-73); a frame taken by the codec yields `out` packets
EncWriteLoop ==
  /\ enc.pc = "wr_loop"
  /\ IF Len(enc.write_buf) - enc.total < enc.size
     THEN enc' = [enc EXCEPT !.pc = "read", !.total = 0,
                    !.write_buf = SubSeq(enc.write_buf, enc.total + 1,
                                         Len(enc.write_buf))]
     ELSE \E writable \in BOOLEAN, out \in {0, 1} : \E res \in SendFrameRet :
            LET buf == FrameSource(enc.write_buf, enc.total, enc.size)
                data == IF enc.is_planar
                        THEN CopyPlanarFromSlice(buf, GetSampleSize(enc.fmt),
                                                 LayoutChannels)
                        ELSE CopyInterleavedFromSlice(buf)
            IN enc' = IF ~writable
                      THEN EncErr(enc, CHOOSE e \in CodecErrs : TRUE,
                                  "make_writable")
                      ELSE IF res < 0
                      THEN EncErr([enc EXCEPT !.total = @ + enc.size], res,
                                  "send_frame")
                      ELSE [enc EXCEPT !.total = @ + enc.size,
                              !.frames = Append(@, data),
                              !.nsent = @ + 1,
                              !.pkts = @ + out]
  /\ UNCHANGED <<tbvars, mvars, netvars, pcm, dev, auxvars>>

\* what avcodec_receive_packet may return: 0 when the codec holds a packet,
\* EAGAIN when it holds none, or an error
ReceivePktRet ==
  CodecErrs \cup (IF enc.pkts > 0 THEN {0} ELSE {-EAGAIN})

\* new_slice's loop: Encoder::read, and send_to_all of the packet it yields;
\* on None new_slice returns Ok. The formatter may fail (ok = FALSE)
EncRead ==
  /\ enc.pc = "read"
  /\ \E ok \in BOOLEAN : \E res \in ReceivePktRet :
       enc' = IF res >= 0
              THEN IF ok
                   THEN [enc EXCEPT !.pkts = @ - 1, !.npkts = @ + 1]
                   ELSE EncErr([enc EXCEPT !.pkts = @ - 1],
                               CHOOSE e \in CodecErrs : TRUE, "write_pkt")
              ELSE IF IsAgainOrEof(res)
              THEN [enc EXCEPT !.pc = "idle"]
              ELSE EncErr(enc, res, "receive_pkt")
  /\ UNCHANGED <<tbvars, mvars, netvars, pcm, dev, auxvars>>

\* an Encoder to be constructed for some requested format, on a codec with
\* some list of sample formats and some frame_size
InitEnc ==
  /\ InitNetServer
  /\ NoPcmCall
  /\ NoCapture
  /\ NoWriter
  /\ NoPktGen
  /\ NoLocks
  /\ InitSinks({})
  /\ recdata = <<>>
  /\ down = "no"
  /\ mpc = "idle"
  /\ call = NoCall
  /\ nwrites = 0
  /\ nstops = 0
  /\ \E format \in Formats, supported \in SupportedLists,
        frame_size \in FrameSizes :
       enc = EncNew(format, supported, frame_size)

NextEnc ==
  \/ EncoderNew
  \/ EncWriteCall
  \/ EncWriteLoop
  \/ EncRead

SpecEnc == InitEnc /\ [][NextEnc]_vars

\* ------------------------------------------------------------------ claims
\* C1: FIFO per sink. At every moment the concatenation of the slices the
\* worker has passed to new_slice is a prefix of the concatenation of the
\* slices passed to write_data so far: same bytes, same order, nothing
\* duplicated or skipped.
C1_FifoPrefix == \A s \in Sinks : IsPrefix(delivered[s], written[s])

\* a full 4096-byte slice is about to be delivered after an earlier slice,
\* while more written bytes still wait in the queue
C1_Witness ==
  /\ wpc["server"] = "deliver"
  /\ BLen(buffer["server"]) = BUFFER_SIZE
  /\ delivered["server"] # <<>>
  /\ que["server"].some /\ que["server"].buf # <<>>

\* C2: queue safety. A closed queue never becomes open again; the bytes
\* delivered are always a prefix of the bytes written before the close, so
\* nothing written after the close is delivered; wait_and_fill_buffer
\* reports "closed" at most once, once when the worker leaves without a
\* receiver error, and after the report the worker neither drains nor
\* delivers.
C2_StateInv ==
  \A s \in Sinks :
    /\ IsPrefix(delivered[s], preClose[s])
    /\ closedReports[s] <= 1
    /\ closedReports[s] = 1 => (wpc[s] = "done" /\ ~que[s].some)
    /\ (wpc[s] = "done" /\ ~werr[s]) => closedReports[s] = 1

C2_Step ==
  \A s \in Sinks :
    /\ ~que[s].some => ~que'[s].some
    /\ closedReports[s] = 1 =>
         /\ delivered'[s] = delivered[s]
         /\ buffer'[s] = buffer[s]
         /\ que'[s] = que[s]
         /\ closedReports'[s] = 1

C2_QueueSafety == []C2_StateInv /\ [][C2_Step]_vars

\* the worker has reported "closed" and a later write_data call has returned
C2_Witness ==
  /\ closedReports["server"] = 1
  /\ written["server"] # preClose["server"]
  /\ mpc = "idle"

\* C3: no lost wakeup. A worker waiting on an open queue that has received
\* bytes is woken and delivers them (unless the receiver fails), and it
\* never stays asleep while the queue is non-empty or closed.
C3_WakeAndDeliver ==
  \A s \in Sinks :
    /\ (wpc[s] = "waiting" /\ que[s].some /\ que[s].buf # <<>>)
         ~> (delivered[s] = preClose[s] \/ werr[s])
    /\ (wpc[s] = "waiting" /\ (~que[s].some \/ que[s].buf # <<>>))
         ~> (wpc[s] # "waiting")

\* the part of C3 about the wakeup alone
C3_Woken ==
  \A s \in Sinks :
    (wpc[s] = "waiting" /\ (~que[s].some \/ que[s].buf # <<>>))
      ~> (wpc[s] # "waiting")

\* C5: in-flight data is flushed on shutdown. When the worker has left
\* (without a receiver error), every byte written before the close has been
\* delivered.
C5_FlushedAtExit ==
  \A s \in Sinks :
    (wpc[s] = "done" /\ ~werr[s]) => delivered[s] = preClose[s]

\* the registry cl without the addresses of F, order kept
Without(cl, F) == SelectSeq(cl, LAMBDA a : a \notin F)

NoDup(cl) == \A i, j \in 1..Len(cl) : i # j => cl[i] # cl[j]

\* C6: peer idempotence. The registry never holds an address twice; after a
\* `start` the sender has exactly one entry and the other entries are as
\* before; a `stop` from an unregistered address changes nothing.
C6_Step ==
  /\ (ev'.op = "udp" /\ ev'.payload = Start) =>
       /\ Len(SelectSeq(clients', LAMBDA a : a = ev'.addr)) = 1
       /\ Without(clients', {ev'.addr}) = Without(clients, {ev'.addr})
  /\ (ev'.op = "udp" /\ ev'.payload = Stop /\ ev'.addr \notin Range(clients)) =>
       clients' = clients

C6_PeerIdempotence == [](NoDup(clients)) /\ [][C6_Step]_vars

\* `start` has just come from peer a, which registered before peer b did:
\* a repeated start
C6_Witness ==
  /\ ev.op = "udp" /\ ev.payload = Start /\ ev.addr = "a"
  /\ clients = <<"a", "b">>

RECURSIVE ExpectedSends(_, _, _, _)
\* the send_to calls of a drain that removes exactly the failing peers
ExpectedSends(cl, blocks, fails, k) ==
  IF blocks = <<>> THEN <<>>
  ELSE SendsOf(cl, Head(blocks))
         \o ExpectedSends(Without(cl, fails[k]), Tail(blocks), fails, k + 1)

\* C7: per-peer send failure. A drain removes exactly the peers whose send
\* failed, keeps the others in their order, does not end the event loop, and
\* sends later blocks only to the peers that remain.
C7_Step ==
  ev'.op = "send_new_data" =>
    /\ loop' = "running"
    /\ clients' = Without(clients, UNION Range(ev'.fails))
    /\ ev'.sends = ExpectedSends(clients, to_send, ev'.fails, 1)

C7_ExactRemoval == [][C7_Step]_vars

\* C8: broadcast ordering. to_send always holds, in enqueue order, the
\* enqueued payloads not popped yet, and every peer that is registered
\* before and after a drain is sent exactly the payloads popped by that
\* drain, in enqueue order, each once.
C8_Step ==
  ev'.op = "send_new_data" =>
    \A p \in Range(clients) \cap Range(clients') :
      PayloadsTo(p, ev'.sends) = SubSeq(enq, npopped + 1, npopped')

C8_BroadcastOrder ==
  /\ [](to_send = SubSeq(enq, npopped + 1, Len(enq)))
  /\ [][C8_Step]_vars

\* one drain has sent two different blocks to two registered peers
C8_Witness ==
  /\ ev.op = "send_new_data"
  /\ Len(clients) = 2
  /\ npopped = 2 /\ enq[1] # enq[2]
  /\ Len(ev.sends) = 4

\* C9: an `info` datagram makes the server send the reply to the sender and
\* nothing else; the registry and the send queue stay as they were.
C9_Step ==
  (ev'.op = "udp" /\ ev'.payload = Info) =>
    /\ ev'.sends = <<[to |-> ev'.addr, data |-> Reply]>>
    /\ clients' = clients
    /\ to_send' = to_send
    /\ free' = free
    /\ loop' = "running"

C9_InfoReply == [][C9_Step]_vars

\* `info` from a registered peer, whose reply could not be sent
C9_Witness ==
  /\ ev.op = "udp" /\ ev.payload = Info /\ ~ev.ok
  /\ ev.addr \in Range(clients)

\* C10: a datagram that is not exactly info, start or stop sends nothing and
\* changes neither the registry nor the send queue; the loop keeps running.
C10_Step ==
  (ev'.op = "udp" /\ ev'.payload \notin {Info, Start, Stop}) =>
    /\ ev'.sends = <<>>
    /\ clients' = clients
    /\ to_send' = to_send
    /\ free' = free
    /\ loop' = "running"

C10_UnknownIgnored == [][C10_Step]_vars

\* "start\n" has just come from a peer that is not registered, another is
C10_Witness ==
  /\ ev.op = "udp" /\ ev.payload = Start \o <<10>>
  /\ ev.addr \notin Range(clients)
  /\ clients # <<>>

\* stop_and_join(s) has closed the queue and returned
Stopped(s) ==
  /\ closedEver[s]
  /\ ~(call.s = s /\ mpc \in {"sj_notify", "sj_join"})

\* C4 as stated: once the latch is set and the capture loop has been left,
\* a sink worker begins at most one further drain-and-deliver cycle.
C4_OneCycleAfterLoop == \A s \in Sinks : cyc[s] <= 1

\* C4, amended: once stop_and_join has closed a sink's queue, its worker
\* begins no drain and makes at most one new_slice call (the one that was in
\* progress), then terminates, so that stop_and_join returns; after it has
\* returned, the queue and what the receiver has been given never change.
C4_StateInv ==
  \A s \in Sinks :
    /\ afterClose[s] <= 1
    /\ closedEver[s] => ~que[s].some
    /\ Stopped(s) => wpc[s] = "done"

C4_Step ==
  \A s \in Sinks :
    /\ closedEver[s] => buffer'[s] \in {buffer[s], <<>>}
    /\ Stopped(s) => (que'[s] = que[s] /\ delivered'[s] = delivered[s])

C4_ShutdownAfterClose ==
  /\ []C4_StateInv
  /\ [][C4_Step]_vars
  /\ \A s \in Sinks : closedEver[s] ~> Stopped(s)

\* record has returned after a signal; the server worker was delivering when
\* its queue was closed and finished that one delivery afterwards, having run
\* two cycles since the capture loop was left
C4_Witness ==
  /\ mpc = "returned"
  /\ flag
  /\ afterClose["server"] = 1
  /\ cyc["server"] = 2

\* C11: the signal latch is one-way. The flag is false until a signal is
\* delivered, only a signal delivery sets it, nothing resets it (has_signal,
\* which loads it, stays true once it was true), and a delivery sets it also
\* when set_readiness fails.
C11_Step ==
  /\ flag => flag'
  /\ (~flag /\ flag') => ev'.op = "signal"
  /\ nsig' # nsig => flag'

C11_OneWayLatch == [](nsig = 0 => ~flag) /\ [][C11_Step]_vars

\* the first signal set the flag although its readiness could not be raised,
\* and the poll loop has handled datagrams since
C11_Witness ==
  /\ flag /\ nsig = 1 /\ ~exitReady
  /\ ev.op = "udp"
  /\ loop = "running"

\* C12: event-loop shutdown. Once the flag is set and the readiness raised,
\* the poll loop eventually handles the token and exits, and it never exits
\* while the flag is unset.
C12_LoopExits ==
  /\ (flag /\ exitReady) ~> (loop = "exited")
  /\ [](loop = "exited" => flag)

\* the part of C12 that holds: the loop does not keep running once the
\* signal is delivered, and exits only with the flag set
C12_LoopEnds ==
  /\ (flag /\ exitReady) ~> (loop \in {"exited", "panicked"})
  /\ [](loop = "exited" => flag)

\* C13 as stated: a block posted after the poll loop has exited is dropped:
\* send_to_all returns Ok and to_send does not keep the block.
C13_Step ==
  (loop = "exited" /\ ev'.op = "send_to_all" /\ ev'.payload # <<>>) =>
    (ev'.ok /\ to_send' = to_send)

C13_DroppedAfterExit == [][C13_Step]_vars

\* C13, amended: send_to_all returns Ok and appends the block to to_send,
\* where it stays: after the loop has exited nothing is popped and nothing is
\* sent to any peer.
C13_KeptStep ==
  /\ (loop = "exited" /\ ev'.op = "send_to_all" /\ ev'.payload # <<>>) =>
       (ev'.ok /\ to_send' = Append(to_send, ev'.payload))
  /\ loop = "exited" =>
       /\ Len(to_send) <= Len(to_send')
       /\ SubSeq(to_send', 1, Len(to_send)) = to_send
       /\ npopped' = npopped
       /\ ev'.sends = <<>>
       /\ loop' = "exited"

C13_KeptAfterExit == [][C13_KeptStep]_vars

\* one block was broadcast before the loop exited, and a block posted after
\* the exit sits in to_send
C13_Witness ==
  /\ loop = "exited"
  /\ ev.op = "send_to_all" /\ ev.payload # <<>>
  /\ npopped = 1
  /\ to_send = <<ev.payload>>

\* C14: back-pressure by dropping. A sink queue whose consumer is stalled or
\* dead stays bounded, the producer dropping the oldest data at saturation:
\* the queue never holds more than the saturation level.
C14_QueueBounded == \A s \in Sinks : BLen(que[s].buf) <= SaturationLen

\* C15: capture frame alignment. A successful read_interleaved returns
\* floor(L / bytes_per_frame) * bytes_per_frame, a multiple of the frame size,
\* and the device has given exactly that many bytes; its cursor only ever
\* stands on a frame boundary.
C15_FrameAligned ==
  pcm.op = "read" =>
    /\ (pcm.total - pcm.todo) % pcm.bpf = 0
    /\ pcm.pc # "call" => dev.given = pcm.total - pcm.todo
    /\ pcm.res = "ok" =>
         /\ pcm.n = (pcm.len \div pcm.bpf) * pcm.bpf
         /\ pcm.n % pcm.bpf = 0
         /\ pcm.len - pcm.n < pcm.bpf
         /\ dev.given = pcm.n

\* a read of two stereo 16-bit frames into 9 bytes has returned 8, although a
\* device call in between transferred nothing
C15_Witness ==
  /\ pcm.op = "read" /\ pcm.res = "ok"
  /\ pcm.bpf = 4 /\ pcm.len = 9 /\ pcm.n = 8
  /\ dev.nio > 0

\* C16: capture overruns are transparent. read_interleaved does not return
\* the EPIPE that snd_pcm_readi reports for a device in XRun.
C16_OverrunTransparent ==
  ~(/\ pcm.op = "read"
    /\ pcm.res = "err" /\ pcm.errno = EPIPE /\ pcm.at = "readi"
    /\ dev.state = "XRun")

\* the bytes of the caller's buffer that write_interleaved has passed on
Written ==
  IF pcm.pc \in {"wi_loop", "wi_wait"}
  THEN pcm.start + (pcm.clen - pcm.ctodo)
  ELSE pcm.total - pcm.todo

\* C17: playback underrun recovery loses nothing. The device has always been
\* given exactly the bytes of the buffer up to the cursor, in order and once;
\* a recovered EPIPE leaves the cursor and the device's bytes as they were and
\* write_i tries again; an Ok return means the whole buffer was given.
C17_StateInv ==
  pcm.op = "write" =>
    /\ pcm.res = "none" /\ pcm.pc # "call" =>
         dev.got = SubSeq(SrcBuffer(pcm.len), 1, Written)
    /\ pcm.res = "ok" => dev.got = SubSeq(SrcBuffer(pcm.len), 1, pcm.total)

C17_Step ==
  dev'.recov # dev.recov =>
    /\ dev.state = "XRun" /\ dev'.state = "Prepared"
    /\ pcm'.pc = "wi_loop"
    /\ pcm'.ctodo = pcm.ctodo /\ pcm'.start = pcm.start
    /\ dev'.got = dev.got

C17_UnderrunRecovery == []C17_StateInv /\ [][C17_Step]_vars

\* a write of two chunks has returned Ok with all 8 bytes given, after two
\* recovered underruns
C17_Witness ==
  /\ pcm.op = "write" /\ pcm.res = "ok"
  /\ pcm.bpf = 2 /\ pcm.period = 2 /\ pcm.len = 9
  /\ Len(dev.got) = 8
  /\ dev.recov = 2

\* C18: graceful degradation. With one sink dead on a receiver error, the
\* other sink still receives every captured payload, in order: when record
\* has returned, a sink whose own receiver did not fail has been given all
\* that was written to it.
C18_OtherSinkGetsAll ==
  \A s \in Sinks : \A o \in Sinks \ {s} :
    werr[s] =>
      /\ IsPrefix(delivered[o], written[o])
      /\ (mpc = "returned" /\ wpc[o] = "done" /\ ~werr[o]) =>
           delivered[o] = written[o]

\* the parts of C18 that hold: the worker of the dead sink has terminated and
\* delivers nothing more, a write_data call on the dead sink returns, and the
\* other sink is given, in order, all that was written to it unless its
\* queue is closed first
C18_DeadStep ==
  \A s \in Sinks :
    werr[s] => (wpc'[s] = "done" /\ delivered'[s] = delivered[s])

C18_Degrades ==
  /\ [](\A s \in Sinks : werr[s] => wpc[s] = "done")
  /\ [][C18_DeadStep]_vars
  /\ \A s \in Sinks :
       (werr[s] /\ call.s = s /\ mpc \in {"wd_lock", "wd_body"})
         ~> (mpc \notin {"wd_lock", "wd_body"})
  /\ \A s \in Sinks : \A o \in Sinks \ {s} :
       (werr[s] /\ wpc[o] # "absent")
         ~> (delivered[o] = written[o] \/ closedEver[o] \/ werr[o])

\* C19: guaranteed release on all exit paths. When record has returned, by
\* whatever way, every sink's queue is closed, its thread handle taken and its
\* worker terminated; and once record starts to leave, it does return.
C19_Released ==
  mpc = "returned" =>
    \A s \in Sinks :
      wpc[s] # "absent" =>
        (wpc[s] = "done" /\ ~que[s].some /\ ~thread[s] /\ mtx[s] = "free")

C19_ReleaseOnExit ==
  /\ []C19_Released
  /\ (mpc \in {"rec_stop", "drop_server"}) ~> (mpc = "returned")

\* record has returned on a capture error, no signal taken and stop_and_join
\* never called explicitly: Drop alone closed both queues, and both workers
\* reported the close
C19_Witness ==
  /\ mpc = "returned" /\ ~flag
  /\ \A s \in Sinks : closedReports[s] = 1

\* the NetServer handle belongs to the server sink's receiver, which is
\* dropped when the worker leaves thread_loop; record's clone of the latch
\* (on_exit_flag) is dropped when record returns
ServerHandleReleased == wpc["server"] = "done"
LatchReleased == mpc = "returned"
WorkersDone == \A s \in Sinks : wpc[s] \in {"done", "absent"}

C21_DropClosesLoop == (poster = "dropped") ~> (loop # "running")

\* C22: graceful shutdown leaves nothing pending: when the poll loop exits on
\* a termination signal, to_send is empty (every block enqueued before the
\* exit has been popped and broadcast).
C22_Step ==
  (loop = "running" /\ loop' = "exited") =>
    (to_send' = <<>> /\ npopped' = Len(enq'))
C22_NothingPending == [][C22_Step]_vars

\* C23: NotReady is never surfaced by the encoder: in new_slice's pattern,
\* write(x) then read until None, no call returns an error that carries
\* EAGAIN or EOF of the codec, from the receive side or from the submission
\* side.
C23_NotReadyHidden == enc.pc = "failed" => ~IsAgainOrEof(enc.errno)

\* the receive side alone: read turns EAGAIN into None
C23_ReadHidesNotReady ==
  (enc.pc = "failed" /\ enc.at = "receive_pkt") => ~IsAgainOrEof(enc.errno)

\* C24: frame alignment through the player sink: the producer passing only
\* whole-frame payloads, every slice handed to write_interleaved is a whole
\* number of frames, for every channel count 1..8 and sample size 1, 2, 4:
\* the round-down discards nothing and the data stays on frame boundaries.
C24_SliceAligned ==
  wpc["player"] = "deliver" =>
    LET n == BLen(buffer["player"])
    IN /\ FramesQtyToBytesQty(pcm.bpf, BytesQtyToFramesQty(pcm.bpf, n)) = n
       /\ BLen(delivered["player"]) % pcm.bpf = 0

\* the part of C24 that holds: the frame sizes that divide BUFFER_SIZE
C24_AlignedIfDivides == (BUFFER_SIZE % pcm.bpf = 0) => C24_SliceAligned

\* the interleaved bytes a frame holds: data[0] of an interleaved frame, the
\* samples of the planes taken in turn of a planar one
FrameBytes(data, is_planar, sample_size) ==
  IF ~is_planar THEN data[1]
  ELSE LET channels == Len(data)
       IN [i \in 1..(Len(data[1]) * channels) |->
             data[(((i - 1) \div sample_size) % channels) + 1]
                 [((i - 1) \div (sample_size * channels)) * sample_size
                  + ((i - 1) % sample_size) + 1]]

RECURSIVE FramesBytes(_, _, _)
FramesBytes(frames, is_planar, sample_size) ==
  IF frames = <<>> THEN <<>>
  ELSE FrameBytes(Head(frames), is_planar, sample_size)
       \o FramesBytes(Tail(frames), is_planar, sample_size)

C26_XrunDecision ==
  (pcm.op = "xrun" /\ pcm.pc = "done") =>
    /\ pcm.res = "ok" <=>
         (pcm.state = "XRun" /\ pcm.status_res = 0 /\ pcm.prepare_res = 0)
    /\ pcm.res = "ok" => (dev.state = "Prepared" /\ dev.recov = 1)
    /\ pcm.res = "err" => (dev.state = pcm.state /\ dev.recov = 0)
    /\ (pcm.status_res = 0 /\ pcm.state # "XRun") =>
         (pcm.res = "err" /\ pcm.errno = -pcm.errnum /\ pcm.at = "xrun")
    /\ pcm.status_res < 0 =>
         (pcm.res = "err" /\ pcm.errno = -pcm.status_res)
    /\ (pcm.status_res = 0 /\ pcm.state = "XRun" /\ pcm.prepare_res < 0) =>
         (pcm.res = "err" /\ pcm.errno = -pcm.prepare_res)

\* xrun was called for EPIPE on a running device whose prepare would fail: it
\* has returned the EPIPE error and left the device alone
C26_Witness ==
  /\ pcm.op = "xrun" /\ pcm.pc = "done"
  /\ pcm.state = "Running" /\ pcm.errnum = -EPIPE
  /\ pcm.status_res = 0 /\ pcm.prepare_res < 0
  /\ pcm.res = "err" /\ pcm.errno = EPIPE /\ dev.state = "Running"

\* C27: playback device errors are fatal. When snd_pcm_writei returns a
\* negative code other than EAGAIN and EPIPE, write_interleaved stops and
\* returns an error, and the remaining-bytes counter is never changed by a
\* negative result: it never underflows or wraps.
C27_WriteErrorFatal ==
  pcm.op = "write" => (pcm.res # "panic" /\ pcm.ctodo <= pcm.clen)

\* C28: lock discipline of the byte queue. The worker holds the queue mutex
\* only between locking and the end of wait_and_fill_buffer, never inside
\* new_slice; each drain moves between 1 and BUFFER_SIZE bytes from the queue
\* to the scratch buffer; the scratch buffer is empty whenever the worker
\* locks or waits, so no byte is delivered twice.
C28_StateInv ==
  \A s \in Sinks :
    /\ mtx[s] = "worker" <=> wpc[s] = "locked"
    /\ wpc[s] \in {"fill", "locked", "waiting"} => buffer[s] = <<>>
    /\ wpc[s] = "deliver" =>
         (1 <= BLen(buffer[s]) /\ BLen(buffer[s]) <= BUFFER_SIZE)

C28_Step ==
  \A s \in Sinks :
    (wpc[s] = "locked" /\ wpc'[s] = "deliver") =>
      /\ mtx'[s] = "free"
      /\ Cat(buffer'[s], que'[s].buf) = que[s].buf
      /\ BLen(buffer'[s]) = Min(BLen(que[s].buf), BUFFER_SIZE)

C28_LockDiscipline == []C28_StateInv /\ [][C28_Step]_vars

\* the worker is inside new_slice with a full scratch buffer while write_data
\* holds the mutex and appends
C28_Witness ==
  /\ wpc["server"] = "deliver"
  /\ BLen(buffer["server"]) = BUFFER_SIZE
  /\ mtx["server"] = "main" /\ mpc = "wd_body"
  /\ que["server"].buf # <<>>

\* C29: each handling of SEND_DATA_TOKEN drains the send queue. When
\* send_new_data returns, to_send is empty; every block it popped was offered
\* to the peers registered at that moment, each once and in queue order, and
\* was cleared and pushed on the free list; every block of the free list is
\* empty, so a block that send_to_all takes from it carries the new payload
\* alone.
C29_Step ==
  /\ (ev'.op = "send_new_data" /\ loop' = "running") =>
       /\ to_send' = <<>>
       /\ npopped' = npopped + Len(to_send)
       /\ free' = free \o [i \in 1..Len(to_send) |-> <<>>]
       /\ \A i \in 1..Len(ev'.sends) : ev'.sends[i].to \in Range(clients)
       /\ \A p \in Range(clients) :
            LET pl == PayloadsTo(p, ev'.sends)
            IN /\ Len(pl) <= Len(to_send)
               /\ to_send # <<>> => Len(pl) >= 1
               /\ pl = SubSeq(to_send, 1, Len(pl))
  /\ (ev'.op = "send_to_all" /\ Len(enq') > Len(enq)) =>
       /\ to_send' = Append(to_send, ev'.payload)
       /\ Len(free') = IF free = <<>> THEN 0 ELSE Len(free) - 1

C29_DrainsAll ==
  /\ [](\A i \in 1..Len(free) : free[i] = <<>>)
  /\ [][C29_Step]_vars

\* a second drain has returned: its block had been taken from the free list,
\* where the first drain had put it, and it was sent to a registered peer
C29_Witness ==
  /\ ev.op = "send_new_data" /\ loop = "running"
  /\ npopped = 2 /\ enq[1] # enq[2]
  /\ Len(free) = 1 /\ to_send = <<>>
  /\ Len(ev.sends) = 1 /\ ev.sends[1].data = enq[2]

\* the planar variant of each interleaved format
PlanarOf == [f \in Interleaved |->
               CASE f = "U8" -> "U8P" [] f = "S16Le" -> "S16LeP"
                 [] f = "FloatLe" -> "FloatLeP"]

\* the list of an UnsupportedSampleFormatError: each supported format in its
\* interleaved form
InterleavedList(sup) ==
  [i \in 1..Len(sup) |->
     IF sup[i] \in Interleaved THEN sup[i]
     ELSE CHOOSE f \in Interleaved : PlanarOf[f] = sup[i]]

\* C30: encoder sample-format negotiation. Construction fails with
\* UnsupportedSampleFormatError if the requested format is planar; otherwise
\* it selects the requested format if the codec supports it, else its planar
\* variant if the codec supports that, else it fails with
\* UnsupportedSampleFormatError listing the supported formats in interleaved
\* form.
C30_Step ==
  (enc.pc = "new" /\ enc'.pc # "new") =>
    LET f == enc.fmt
        sup == enc.supported
        unsupported == /\ enc'.pc = "new_failed" /\ enc'.at = "sample_fmt"
                       /\ enc'.fmt = f
                       /\ enc'.supported = InterleavedList(sup)
        selects(g) == /\ enc'.at # "sample_fmt"
                      /\ enc'.pc = "idle" =>
                           (enc'.fmt = g /\ enc'.is_planar = (g \in Planar))
    IN IF f \in Planar THEN unsupported
       ELSE IF f \in Range(sup) THEN selects(f)
       ELSE IF PlanarOf[f] \in Range(sup) THEN selects(PlanarOf[f])
       ELSE unsupported

C30_Negotiation == [][C30_Step]_vars

\* an Encoder has been constructed on the planar variant of the requested
\* format
C30_Witness ==
  /\ enc.pc = "idle" /\ enc.nslices = 0
  /\ enc.fmt = "FloatLeP" /\ enc.is_planar
  /\ enc.size = 2 * LayoutChannels * 4

\* ---------------------------------------------------------------- C31
C31_Step ==
  /\ (mpc = "loop_test" /\ mpc' # mpc) =>
       /\ mpc' = IF flag THEN "rec_stop" ELSE "read"
       /\ UNCHANGED <<nwrites, recdata, written, que>>
  /\ (mpc = "read" /\ mpc' = "w_player") =>
       /\ BLen(cap'.raw) % BytesPerFrame(cap.record_params) = 0
       /\ BLen(cap'.raw) <= RecBufferLen
       /\ BLen(cap'.raw) + BytesPerFrame(cap.record_params) > RecBufferLen
       /\ cap'.resampled = (cap.params # cap.record_params)
       /\ recdata' = IF cap.params # cap.record_params
                     THEN Resample(cap'.raw, cap.record_params, cap.params)
                     ELSE cap'.raw
       /\ UNCHANGED <<written, que>>
  /\ (mpc = "read" /\ mpc' # mpc /\ mpc' # "w_player") =>
       /\ mpc' = "drop_server"
       /\ UNCHANGED <<written, que, recdata, nwrites>>
  /\ (mpc = "w_player" /\ mpc' # mpc) =>
       IF HasPlayer
       THEN /\ call' = [s |-> "player", data |-> recdata, ret |-> "w_server"]
            /\ written' = [written EXCEPT !["player"] = Cat(@, recdata)]
       ELSE /\ mpc' = "w_server"
            /\ written' = written
  /\ (mpc = "w_server" /\ mpc' # mpc) =>
       /\ call' = [s |-> "server", data |-> recdata, ret |-> "loop_test"]
       /\ written' = [written EXCEPT !["server"] = Cat(@, recdata)]
  /\ mpc \notin {"loop_test", "read", "w_player", "w_server", "wd_lock",
                  "wd_body"} => written' = written

C31_StateInv ==
  /\ (mpc \in {"loop_test", "read"} /\ HasPlayer) =>
       written["player"] = written["server"]
  /\ BLen(written["server"]) \in {nwrites * BLen(recdata),
                                  (nwrites - 1) * BLen(recdata)}

\* C31: each iteration of the capture loop tests the latch before it reads
\* and breaks without reading when the latch is set; otherwise it reads the
\* whole frames that fit in the buffer, passes them through the resampler
\* exactly when the granted capture params differ from the requested ones, and
\* forwards the same payload to every active ThreadBuffer; an error of the
\* read or of the resampler leaves the loop with nothing forwarded
C31_IterationContract == [][C31_Step]_vars /\ []C31_StateInv

\* an iteration has read, resampled and forwarded its payload to both sinks
C31_Witness ==
  /\ cap.resampler
  /\ cap.resampled
  /\ HasPlayer
  /\ mpc = "loop_test"
  /\ nwrites = 1
  /\ BLen(recdata) = 2 * BLen(cap.raw)
  /\ written["player"] = recdata
  /\ written["server"] = recdata

\* ---------------------------------------------------------------- C32
C32_Step ==
  /\ (mpc = "wd_lock" /\ ~que[call.s].some /\ mpc' # mpc) =>
       UNCHANGED <<que, woken, thread, wpc, buffer, delivered>>
  /\ (mpc = "wd_body" /\ ~que[call.s].some /\ mpc' # mpc) =>
       /\ mpc' = call.ret
       /\ que'[call.s] = None
       /\ mtx'[call.s] = "free"
       /\ UNCHANGED <<que, woken, thread, wpc, buffer, delivered>>

\* C32: write_data on a closed ThreadBuffer returns Ok and changes nothing:
\* the queue stays None, no byte is kept and no notification is issued,
\* whatever the slice, the empty one included
C32_ClosedWriteNoOp == [][C32_Step]_vars

\* a write_data of a non-empty slice made after the close has returned
C32_Witness ==
  /\ mpc = "idle"
  /\ closedEver["server"]
  /\ que["server"] = None
  /\ written["server"] # preClose["server"]

\* ---------------------------------------------------------------- C33
C33_Step ==
  (mpc = "sj_take" /\ ~thread[call.s] /\ mpc' # mpc) =>
    /\ mpc' = call.ret
    /\ UNCHANGED tbvars

C33_StateInv ==
  /\ mpc \in {"sj_lock", "sj_close"} => ~closedEver[call.s]
  /\ \A s \in Sinks :
       (wpc[s] # "absent" /\ ~thread[s]
          /\ ~(call.s = s /\ mpc \in {"sj_lock", "sj_close"})) =>
         que[s] = None

\* C33: stop_and_join is idempotent: a call made when the handle was already
\* taken, such as Drop's after an explicit stop_and_join, does nothing: it
\* does not lock, close, notify or join again, and the queue stays closed
C33_StopIdempotent == [][C33_Step]_vars /\ []C33_StateInv

\* record has returned after stopping both sinks explicitly and dropping them
C33_Witness ==
  /\ mpc = "returned"
  /\ down = "stop_ok"
  /\ HasPlayer
  /\ \A s \in Sinks : ~thread[s] /\ que[s] = None /\ wpc[s] = "done"

\* ------------------------------------------- ThreadAudioWriter (SpecTaw)
\* write calls made on one ThreadAudioWriter
MaxTawWrites == 2
\* audio_saver.rs: the most samples the writer thread drains at once
TAW_BUFFER_SIZE == 16384
\* the slices passed to write_samples_slice, as runs <<sample, count>>
TawSlices == {<<>>} \cup { << <<v, n>> >> : v \in ByteVals, n \in {2, 16385} }

\* ThreadAudioWriter::new: the queue is Some and empty, the thread runs
NewTaw ==
  [pc |-> "idle", by |-> "none", que |-> [some |-> TRUE, buf |-> <<>>],
   thread |-> TRUE, wpc |-> "fill", woken |-> FALSE, buffer |-> <<>>,
   out |-> <<>>, nw |-> 0, stops |-> 0]

\* Condvar::notify_one on the writer's queue
TawNotified(t) == t.wpc = "waiting"

\* the queue after a write call: extended if it is Some
TawPush(q, data) == IF q.some THEN [q EXCEPT !.buf = Cat(q.buf, data)] ELSE q

\* write_sample, lines 216-223
TawWriteSample ==
  /\ taw.pc = "idle"
  /\ taw.nw < MaxTawWrites
  /\ \E v \in ByteVals :
       taw' = [taw EXCEPT !.que = TawPush(taw.que, << <<v, 1>> >>),
                          !.woken = IF taw.que.some THEN TawNotified(taw) ELSE @,
                          !.nw = @ + 1]
  /\ UNCHANGED <<tbvars, mvars, netvars, pcm, dev, enc, cap, pkt, lk>>

\* write_samples_slice, lines 225-232
TawWriteSamplesSlice ==
  /\ taw.pc = "idle"
  /\ taw.nw < MaxTawWrites
  /\ \E data \in TawSlices :
       taw' = [taw EXCEPT !.que = TawPush(taw.que, data),
                          !.woken = IF taw.que.some THEN TawNotified(taw) ELSE @,
                          !.nw = @ + 1]
  /\ UNCHANGED <<tbvars, mvars, netvars, pcm, dev, enc, cap, pkt, lk>>

\* stop_and_join, lines 235-237: the queue becomes None, notify_one
TawStopClose(by) ==
  /\ taw.pc = "idle"
  /\ taw' = [taw EXCEPT !.pc = "sj_take", !.by = by,
                        !.que = None,
                        !.woken = TawNotified(taw),
                        !.stops = @ + 1]
  /\ UNCHANGED <<tbvars, mvars, netvars, pcm, dev, enc, cap, pkt, lk>>

\* an explicit call of stop_and_join
TawStopAndJoin ==
  /\ taw.stops < MaxStops
  /\ TawStopClose("explicit")

\* Drop for ThreadAudioWriter, lines 242-246: stop_and_join
TawDrop ==
  /\ taw.by # "drop"
  /\ TawStopClose("drop")

\* stop_and_join, line 238: self.thread.take().unwrap() panics on None
TawStopTake ==
  /\ taw.pc = "sj_take"
  /\ taw' = [taw EXCEPT !.thread = FALSE,
                        !.pc = IF taw.thread THEN "sj_join" ELSE "panicked"]
  /\ UNCHANGED <<tbvars, mvars, netvars, pcm, dev, enc, cap, pkt, lk>>

\* stop_and_join, line 238: join returns once the writer thread has returned
TawStopJoin ==
  /\ taw.pc = "sj_join"
  /\ taw.wpc = "done"
  /\ taw' = [taw EXCEPT !.pc = IF taw.by = "drop" THEN "dropped" ELSE "idle"]
  /\ UNCHANGED <<tbvars, mvars, netvars, pcm, dev, enc, cap, pkt, lk>>

\* wait_and_fill_buffer, lines 293-314, with the lock held: return false on
\* None, wait on an empty queue, else drain at most BUFFER_SIZE samples
TawWorkerFill ==
  /\ taw.wpc = "fill"
  /\ taw' = IF ~taw.que.some THEN [taw EXCEPT !.wpc = "done"]
            ELSE IF taw.que.buf = <<>>
            THEN [taw EXCEPT !.wpc = "waiting", !.woken = FALSE]
            ELSE LET n == Min(BLen(taw.que.buf), TAW_BUFFER_SIZE)
                 IN [taw EXCEPT !.wpc = "write",
                                !.buffer = Cat(@, Take(taw.que.buf, n)),
                                !.que.buf = Drop(@, n)]
  /\ UNCHANGED <<tbvars, mvars, netvars, pcm, dev, enc, cap, pkt, lk>>

\* line 305: cvar.wait returns, after a notification or spuriously
TawWorkerWake ==
  /\ taw.wpc = "waiting"
  /\ taw' = [taw EXCEPT !.wpc = "fill", !.woken = FALSE]
  /\ UNCHANGED <<tbvars, mvars, netvars, pcm, dev, enc, cap, pkt, lk>>

\* thread_loop, lines 284-289: write the buffer; return on Err, else clear it
TawWorkerWrite ==
  /\ taw.wpc = "write"
  /\ \E ok \in BOOLEAN :
       taw' = IF ok THEN [taw EXCEPT !.wpc = "fill", !.buffer = <<>>,
                                     !.out = Cat(@, taw.buffer)]
              ELSE [taw EXCEPT !.wpc = "done"]
  /\ UNCHANGED <<tbvars, mvars, netvars, pcm, dev, enc, cap, pkt, lk>>

InitTaw ==
  /\ InitNetServer
  /\ NoPcmCall
  /\ NoEncoder
  /\ NoCapture
  /\ NoPktGen
  /\ NoLocks
  /\ InitSinks({})
  /\ recdata = <<>>
  /\ down = "no"
  /\ mpc = "idle"
  /\ call = NoCall
  /\ nwrites = 0
  /\ nstops = 0
  /\ taw = NewTaw

NextTaw ==
  \/ TawWriteSample
  \/ TawWriteSamplesSlice
  \/ TawStopAndJoin
  \/ TawDrop
  \/ TawStopTake
  \/ TawStopJoin
  \/ TawWorkerFill
  \/ TawWorkerWake
  \/ TawWorkerWrite

SpecTaw == InitTaw /\ [][NextTaw]_vars

\* ---------------------------------------------------------------- C34
\* C34: a ThreadAudioWriter that was stopped explicitly is then dropped
\* without a panic
C34_StopThenDrop ==
  ~(taw.pc = "panicked" /\ taw.by = "drop" /\ taw.stops = 2)

\* ---------------------------------------------------------------- C35
C35_Step ==
  (loop = "running" /\ loop' # "running") => to_send' = <<>>

C35_ReadyWhilePending ==
  (loop = "running" /\ to_send # <<>>) => sendReady

\* under FairNet a loop that goes on polling empties to_send
C35_DrainedOrStopped ==
  (loop = "running" /\ to_send # <<>>) ~> (to_send = <<>> \/ loop # "running")

\* ------------------------------------- the two mutexes together (SpecLock)
\* the server sink's worker, the thread that owns the sink and the poll loop,
\* with the SendQueue mutex, its holder lk.sq, taken in steps: lk.wk is the
\* worker's position in send_to_all, lk.lp the loop's in send_new_data
NewLk == [sq |-> "free", wk |-> "out", lp |-> "poll"]

\* ThreadServerWriter::new_slice, lines 57-58: the encoder has a packet and
\* send_to_all is called with it
NewSliceSend ==
  /\ wpc["server"] = "deliver"
  /\ lk.wk = "out"
  /\ Len(enq) < MaxBlocks
  /\ lk' = [lk EXCEPT !.wk = "want"]
  /\ UNCHANGED <<tbvars, mvars, netvars, pcm, dev, enc, cap, taw, pkt>>

\* send_to_all, line 75: self.que.lock(); unwrap panics on a poisoned mutex
\* and the worker thread ends
SendToAllLock ==
  /\ lk.wk = "want"
  /\ lk.sq \in {"free", "poisoned"}
  /\ IF lk.sq = "free"
     THEN /\ lk' = [lk EXCEPT !.sq = "worker", !.wk = "in"]
          /\ UNCHANGED <<wpc, werr>>
     ELSE /\ lk' = [lk EXCEPT !.wk = "panicked"]
          /\ wpc' = [wpc EXCEPT !["server"] = "done"]
          /\ werr' = [werr EXCEPT !["server"] = TRUE]
  /\ UNCHANGED <<que, mtx, woken, thread, buffer, delivered, written, preClose,
                 closedEver, closedReports, cyc, afterClose>>
  /\ UNCHANGED <<mvars, netvars, pcm, dev, enc, cap, taw, pkt>>

\* send_to_all, lines 76-88, with the lock held: a block, taken from the free
\* list if it has one, is filled and queued and the readiness is raised; the
\* guard is dropped on return
SendToAllPush ==
  /\ lk.wk = "in"
  /\ \E buf \in BlockData :
       /\ LET block == IF free = <<>> THEN <<>> ELSE free[Len(free)]
          IN to_send' = Enqueue(to_send, block \o buf)
       /\ free' = IF free = <<>> THEN free ELSE SubSeq(free, 1, Len(free) - 1)
       /\ enq' = Append(enq, buf)
       /\ ev' = Event("send_to_all", "a", buf, TRUE, <<>>, <<>>)
  /\ sendReady' = TRUE
  /\ lk' = [lk EXCEPT !.sq = "free", !.wk = "out"]
  /\ UNCHANGED <<clients, loop, flag, exitReady, npopped, poster, nsig>>
  /\ UNCHANGED <<tbvars, mvars, pcm, dev, enc, cap, taw, pkt>>

\* new_slice returns, with Ok or with an error of the encoder, and
\* thread_loop goes on from it
NewSliceReturn ==
  /\ lk.wk = "out"
  /\ WorkerDeliver("server")

\* poll_loop, line 129: the SEND_DATA_TOKEN event is taken, send_new_data is
\* called
PollSendData ==
  /\ loop = "running"
  /\ lk.lp = "poll"
  /\ sendReady
  /\ sendReady' = FALSE
  /\ lk' = [lk EXCEPT !.lp = "want"]
  /\ UNCHANGED <<clients, to_send, free, loop, flag, exitReady, enq, npopped,
                 ev, poster, nsig>>
  /\ UNCHANGED <<tbvars, mvars, pcm, dev, enc, cap, taw, pkt>>

\* send_new_data, line 148: self.que.lock()
SendNewDataLock ==
  /\ lk.lp = "want"
  /\ lk.sq = "free"
  /\ lk' = [lk EXCEPT !.sq = "loop", !.lp = "in"]
  /\ UNCHANGED <<tbvars, mvars, netvars, pcm, dev, enc, cap, taw, pkt>>

\* send_new_data, lines 150-168, with the lock held: the drain; a panic in
\* the removal loop ends the thread and poisons the mutex
SendNewDataDrain ==
  /\ lk.lp = "in"
  /\ \E fails \in [1..Len(to_send) -> SUBSET Range(clients)] :
       LET st == Drain([clients |-> clients, to_send |-> to_send, free |-> free,
                        sends |-> <<>>, npopped |-> npopped, panic |-> FALSE],
                       fails, 1)
       IN /\ clients' = st.clients
          /\ to_send' = st.to_send
          /\ free' = st.free
          /\ npopped' = st.npopped
          /\ loop' = IF st.panic THEN "panicked" ELSE "running"
          /\ lk' = IF st.panic THEN [lk EXCEPT !.sq = "poisoned", !.lp = "dead"]
                   ELSE [lk EXCEPT !.sq = "free", !.lp = "poll"]
          /\ ev' = Event("send_new_data", "a", <<>>, TRUE, fails, st.sends)
  /\ UNCHANGED <<flag, exitReady, sendReady, enq, poster, nsig>>
  /\ UNCHANGED <<tbvars, mvars, pcm, dev, enc, cap, taw, pkt>>

\* poll_loop between two handlers: the EXIT_TOKEN event
PollExit ==
  /\ lk.lp = "poll"
  /\ ExitEvent

\* the owner of the sink calls write_data with one byte
SinkWrite ==
  /\ mpc = "idle"
  /\ nwrites < MaxWrites
  /\ call' = [s |-> "server", data |-> << <<0, 1>> >>, ret |-> "idle"]
  /\ NoteWrite("server", << <<0, 1>> >>)
  /\ nwrites' = nwrites + 1
  /\ mpc' = "wd_lock"
  /\ UNCHANGED <<que, mtx, woken, thread, wpc, buffer, delivered, closedEver,
                 closedReports, werr, nstops>>
  /\ UNCHANGED <<cyc, afterClose, recdata, down>>
  /\ UNCHANGED <<netvars, restvars>>

InitLock ==
  /\ InitNetServer
  /\ NoPcmCall
  /\ NoEncoder
  /\ NoCapture
  /\ NoWriter
  /\ NoPktGen
  /\ InitSinks({"server"})
  /\ recdata = <<>>
  /\ down = "no"
  /\ mpc = "idle"
  /\ call = NoCall
  /\ nwrites = 0
  /\ nstops = 0
  /\ lk = NewLk

NextLock ==
  \/ SinkWrite
  \/ ClientStop
  \/ Calls
  \/ WorkerLock("server")
  \/ WorkerCheck("server")
  \/ WorkerWake("server")
  \/ WorkerSpurious("server")
  \/ NewSliceSend
  \/ SendToAllLock
  \/ SendToAllPush
  \/ NewSliceReturn
  \/ PollSendData
  \/ SendNewDataLock
  \/ SendNewDataDrain
  \/ Signal
  \/ PollExit

SpecLock == InitLock /\ [][NextLock]_vars

\* ---------------------------------------------------------------- C36
\* the threads: the owner of the sink, the sink's worker, the poll loop; the
\* locks: the sink's queue mutex "que" and the SendQueue mutex "send"
Threads == {"main", "worker", "loop"}

Holds(t) ==
  (IF mtx["server"] = t THEN {"que"} ELSE {}) \cup
  (IF lk.sq = t THEN {"send"} ELSE {})

Holder(l) == IF l = "que" THEN mtx["server"] ELSE lk.sq

\* the locks a thread is asking for
Wants(t) ==
  IF t = "main" THEN (IF mpc \in {"wd_lock", "sj_lock"} THEN {"que"} ELSE {})
  ELSE IF t = "worker"
  THEN (IF wpc["server"] = "fill" THEN {"que"} ELSE {}) \cup
       (IF lk.wk = "want" THEN {"send"} ELSE {})
  ELSE (IF lk.lp = "want" THEN {"send"} ELSE {})

\* the threads that t cannot go on without: the holders of the locks it asks
\* for, the worker that main joins, the notifier that a waiting worker needs
WaitsFor(t) ==
  { u \in Threads \ {t} : \E l \in Wants(t) : Holder(l) = u } \cup
  (IF t = "main" /\ mpc = "sj_join" /\ wpc["server"] # "done"
   THEN {"worker"} ELSE {}) \cup
  (IF t = "worker" /\ wpc["server"] = "waiting" /\ ~woken["server"]
   THEN {"main"} ELSE {})

Blocked(t) ==
  \/ Wants(t) # {}
  \/ t = "main" /\ mpc = "sj_join"
  \/ t = "worker" /\ wpc["server"] = "waiting"

InCycle(t) ==
  \E u \in WaitsFor(t) :
    \/ t \in WaitsFor(u)
    \/ \E v \in WaitsFor(u) : t \in WaitsFor(v)

\* C36: no thread holds one of the two mutexes while it waits for the other,
\* for a join or on the condition variable, and the threads that wait never
\* form a cycle
C36_NoHoldAndWait ==
  /\ \A t \in Threads : Blocked(t) => Holds(t) = {}
  /\ \A t \in Threads : Cardinality(Holds(t)) <= 1
  /\ \A t \in Threads : ~InCycle(t)

\* both mutexes are held, by different threads, and the poll loop waits for
\* the one the worker holds
C36_Witness ==
  /\ mtx["server"] = "main"
  /\ lk.sq = "worker"
  /\ lk.lp = "want"
  /\ WaitsFor("loop") = {"worker"}

\* ---------------------------------------------------------------- C37
\* a step of send_new_data: the only one that takes the readiness away
C37_Drains == loop = "running" /\ sendReady /\ ~sendReady'

C37_Step ==
  C37_Drains =>
    /\ clients = <<>> =>
         /\ ev'.sends = <<>>
         /\ to_send' = <<>>
         /\ npopped' = npopped + Len(to_send)
         /\ free' = free \o [i \in 1..Len(to_send) |-> <<>>]
    /\ \A i \in 1..Len(ev'.sends) :
         /\ ev'.sends[i].to \in Range(clients)
         /\ ev'.sends[i].data \in Range(to_send)

\* a block is in to_send from its send_to_all to the drain that pops it, and
\* nowhere afterwards
C37_StateInv ==
  /\ to_send = SubSeq(enq, npopped + 1, Len(enq))
  /\ \A i \in 1..Len(free) : free[i] = <<>>

\* C37: a block drained while the registry is empty is sent to nobody,
\* cleared and put on the free list; a drain sends only to the peers
\* registered when it runs and only the blocks it pops, so a peer that
\* registers later gets none of the blocks drained before its start
C37_NoBacklog == [][C37_Step]_vars /\ []C37_StateInv

\* the one block posted has been drained with nobody registered
C37_Witness ==
  /\ ev.op = "send_new_data"
  /\ ev.sends = <<>>
  /\ Len(enq) = 1
  /\ npopped = 1
  /\ to_send = <<>>
  /\ free = << <<>> >>
  /\ clients = <<>>

\* ---------------------------------------------------------------- C38
C38_Step ==
  /\ (mpc = "loop_test" /\ flag /\ mpc' # mpc) =>
       /\ mpc' = "rec_stop"
       /\ UNCHANGED <<nwrites, recdata, written>>
  /\ (mpc = "read" /\ flag /\ mpc' # mpc) => cap.late = 0
  /\ (mpc = "w_player" /\ flag /\ HasPlayer /\ mpc' # mpc) =>
       written' = [written EXCEPT !["player"] = Cat(@, recdata)]
  /\ (mpc = "w_server" /\ flag /\ mpc' # mpc) =>
       written' = [written EXCEPT !["server"] = Cat(@, recdata)]

C38_StateInv ==
  /\ cap.late <= 1
  /\ mpc \in {"read", "w_player", "w_server"} => ~cap.latched
  /\ down = "break" => cap.latched

\* C38: once the latch is set the capture loop finishes at most the iteration
\* that had passed the latch test, its payload still forwarded to the sinks,
\* and breaks at the next test: no second read begins after the latch was set
C38_BoundedOverrun == [][C38_Step]_vars /\ []C38_StateInv

\* the latch was set after the test; the iteration read and forwarded its
\* payload, and the loop broke at the next test
C38_Witness ==
  /\ cap.late = 1
  /\ down = "break"
  /\ nwrites = 1
  /\ HasPlayer
  /\ written["player"] = recdata
  /\ written["server"] = recdata

\* ---------------------------------------------------------------- C39
C39_Blocks == Len(to_send) + Len(free)

C39_Step ==
  /\ ev'.op = "send_to_all" =>
       IF ev'.payload = <<>>
       THEN UNCHANGED <<to_send, free, sendReady>>
       ELSE ev'.ok =>
              /\ to_send' = Append(to_send, ev'.payload)
              /\ free' = IF free = <<>> THEN free
                         ELSE SubSeq(free, 1, Len(free) - 1)
              /\ sendReady'
  /\ C39_Blocks' >= C39_Blocks
  /\ C39_Blocks' > C39_Blocks =>
       /\ ev'.op = "send_to_all"
       /\ free = <<>>
       /\ C39_Blocks' = C39_Blocks + 1

\* C39: send_to_all with an empty payload queues nothing and raises no
\* readiness; with any other payload it queues exactly one block equal to
\* the payload, a block of the free list when there is one; the number of
\* blocks in to_send and free together never goes down, and goes up only when
\* send_to_all finds the free list empty
C39_BlockPool == [][C39_Step]_vars

\* the same, but for the drain that panics
C39_UnlessPanic == [][loop' = "panicked" \/ C39_Step]_vars

\* ----------------------------------------- NetworkPktGenerator (SpecPkt)
\* wrap_in_pkt calls made in one run
MaxPkts == 3
\* a u32 is kept as its two 16-bit halves [hi, lo], its value hi * 2^16 + lo
HalfWord == 65536
\* the counts of calls made before the run starts, written as u32 halves:
\* none, and counts next to a carry into the second, third and fourth byte
\* and next to the wrap
PktStarts ==
  {<<0, 0>>, <<0, 254>>, <<0, 255>>, <<0, 65534>>, <<0, 65535>>,
   <<255, 65535>>, <<65535, 65534>>, <<65535, 65535>>}
\* the buffers passed to wrap_in_pkt
PktPayloads == {<<>>, <<7>>, <<0, 255>>, <<1, 0, 0, 0>>, <<255, 255, 255, 255, 9>>}

\* u32::overflowing_add(1).0
OverflowingAdd1(c) ==
  IF c.lo + 1 < HalfWord THEN [c EXCEPT !.lo = @ + 1]
  ELSE [hi |-> (c.hi + 1) % HalfWord, lo |-> 0]

\* mutant: the counter is written least significant byte first
ToBeBytes_Le(c) == <<c.lo % 256, c.lo \div 256, c.hi % 256, c.hi \div 256>>

\* u32::to_be_bytes
ToBeBytes(c) == <<c.hi \div 256, c.hi % 256, c.lo \div 256, c.lo % 256>>

\* Vec::splice(0..0, bytes): the bytes are inserted in front of the buffer
SpliceFront(buf, bytes) == bytes \o buf

\* the number of calls made, which is not bounded by 2^32: the multiples of
\* 2^32 in it and the two halves of the rest
CallsPlus1(n) ==
  IF n.lo + 1 < HalfWord THEN [n EXCEPT !.lo = @ + 1]
  ELSE IF n.hi + 1 < HalfWord THEN [n EXCEPT !.hi = @ + 1, !.lo = 0]
  ELSE [wraps |-> n.wraps + 1, hi |-> 0, lo |-> 0]

\* wrap_in_pkt, lines 12-15
WrapInPkt ==
  /\ pkt.calls < MaxPkts
  /\ \E buf \in PktPayloads :
       LET cnt == OverflowingAdd1(pkt.cnt)
       IN pkt' = [cnt |-> cnt,
                  buf |-> SpliceFront(buf, ToBeBytes(cnt)),
                  payload |-> buf,
                  n |-> CallsPlus1(pkt.n),
                  calls |-> pkt.calls + 1]
  /\ UNCHANGED <<tbvars, mvars, netvars, pcm, dev, enc, cap, taw, lk>>

\* NetworkPktGenerator::new, lines 8-10, and the generator after the calls of
\* PktStarts
InitPkt ==
  /\ InitNetServer
  /\ NoPcmCall
  /\ NoEncoder
  /\ NoCapture
  /\ NoWriter
  /\ NoLocks
  /\ InitSinks({})
  /\ recdata = <<>>
  /\ down = "no"
  /\ mpc = "idle"
  /\ call = NoCall
  /\ nwrites = 0
  /\ nstops = 0
  /\ \E s \in PktStarts :
       pkt = [cnt |-> [hi |-> s[1], lo |-> s[2]], buf |-> <<>>,
              payload |-> <<>>,
              n |-> [wraps |-> 0, hi |-> s[1], lo |-> s[2]], calls |-> 0]

NextPkt == WrapInPkt

SpecPkt == InitPkt /\ [][NextPkt]_vars

\* ---------------------------------------------------------------- C40
\* the value that four bytes hold in big-endian order, as u32 halves
C40_BeHalves(b) == [hi |-> b[1] * 256 + b[2], lo |-> b[3] * 256 + b[4]]

\* C40: the n-th call of wrap_in_pkt puts exactly four bytes in front of the
\* buffer, n mod 2^32 in big-endian order, and leaves the payload unchanged
\* behind them; the first packet carries 1, and the counter goes from 2^32 - 1
\* to 0 without an error
C40_SequencePrefix ==
  pkt.calls > 0 =>
    /\ Len(pkt.buf) = Len(pkt.payload) + 4
    /\ SubSeq(pkt.buf, 5, Len(pkt.buf)) = pkt.payload
    /\ \A i \in 1..4 : pkt.buf[i] \in 0..255
    /\ C40_BeHalves(pkt.buf) = [hi |-> pkt.n.hi, lo |-> pkt.n.lo]
    /\ pkt.n = [wraps |-> 0, hi |-> 0, lo |-> 1] =>
         SubSeq(pkt.buf, 1, 4) = <<0, 0, 0, 1>>
    /\ (pkt.n.hi = 0 /\ pkt.n.lo = 0) =>
         /\ pkt.n.wraps = 1
         /\ SubSeq(pkt.buf, 1, 4) = <<0, 0, 0, 0>>

\* the call number 2^32 + 1: the counter has wrapped to 0 and gone on to 1
C40_Witness ==
  /\ pkt.n = [wraps |-> 1, hi |-> 0, lo |-> 1]
  /\ pkt.payload = <<255, 255, 255, 255, 9>>
  /\ pkt.buf = <<0, 0, 0, 1, 255, 255, 255, 255, 9>>

====
